---- MODULE Spec2Model ----
(***************************************************************************)
(* Price resolution subsystem of the portfolio tracker                     *)
(* (src/app/price_service.py): the in-memory price cache with its          *)
(* time-to-live, the throttler wrapped around every Quote Source call,     *)
(* the fallback to the persisted price history, and the concurrent         *)
(* fan-out of get_multiple_prices over asyncio tasks.                      *)
(*                                                                         *)
(* Time is the wall clock datetime.now() in seconds.  It is taken to be    *)
(* non-decreasing, and two history rows written in the same coarse tick    *)
(* keep the order of their commits (the clock has microsecond resolution   *)
(* and a commit separates any two writes).                                 *)
(*                                                                         *)
(* Optional[Decimal] is modelled as a sequence of length at most one:      *)
(* None is <<>> and a price p is <<p>>.                                    *)
(***************************************************************************)
EXTENDS Integers, Sequences, FiniteSets, TLC

VARIABLES
    now,          \* datetime.now(), seconds
    price_cache,  \* PriceService._price_cache: symbol -> <<price, cached_time>>
    history,      \* rows of the price_history table, in insertion order
    tasks,        \* the get_current_price coroutines, one per slot
    batch,        \* the get_multiple_prices call in progress, if any
    callLog,      \* times at which the throttler was entered and a Quote
                  \* Source call begun, within the last throttler period
    resolutions,  \* get_current_price coroutines created so far
    cleared,      \* the symbols whose entry the clear_cache call that ran
                  \* in the last step removed; empty after any other step
    sinceClear,   \* what happened since the last clear_cache call, if any:
                  \* whether a get_current_price was called, the entries
                  \* stored, and the symbols whose entry the call removed
                  \* and that no get_current_price was called for since
    rawQuote,     \* a raw answer of the Quote Source put through normalisation
    normalized,   \* what normalisation made of it
    holdings,     \* rows of the holdings table, in insertion order
    call,         \* the last call made to PortfolioService, with its input
    prices,       \* the mapping get_multiple_prices returned to that call
    metrics,      \* the list get_holdings_with_metrics returned to it
    summary,      \* the PortfolioSummary it returned, if any
    portfolios,   \* rows of the portfolios table, in insertion order
    pending,      \* the get_holdings_with_metrics or get_portfolio_summary
                  \* call suspended at the await of line 150, with the rows
                  \* it read before
    dashboard,    \* the PortfolioDashboard made by create(): auto_refresh and
                  \* refresh_timer
    timers        \* the ui.timer objects created so far, in order of
                  \* creation: TRUE for one that is active

resolverVars ==
    <<now, price_cache, history, tasks, batch, callLog, resolutions, cleared, sinceClear>>

normaliserVars == <<rawQuote, normalized>>

\* what no step of the resolver touches
portfolioVars == <<holdings, call, prices, metrics, summary, portfolios, pending>>

dashboardVars == <<dashboard, timers>>

nonResolverVars == <<normaliserVars, portfolioVars, dashboardVars>>

vars == <<resolverVars, nonResolverVars>>

----------------------------------------------------------------------------
(* Bounds of the model *)

\* coroutines alive at a time, and the longest list get_multiple_prices is given
MaxTasks == 2

\* the clock advances in steps of TickSeconds, twice
TickSeconds == 150

\* get_current_price coroutines created in a run
MaxResolutions == 2

MaxBatchLen == MaxTasks

\* rows the holdings table grows to through add_holding
MaxRows == 2

MaxTime == 2 * TickSeconds

(* Program constants *)

cache_duration == 300
rate_limit == 10
period == 60

\* Two spellings that differ only in letter case: the resolver never
\* normalises a symbol, so to it they are two symbols.
Symbols == {"AAPL", "aapl"}

Slots == 1..MaxTasks

None == <<>>

Some(p) == <<p>>

----------------------------------------------------------------------------
(* The Quote Source: what yf.Ticker(symbol) can answer *)

\* A probing order that starts with the generic field.
FieldOrderGenericFirst == <<"price", "currentPrice", "regularMarketPrice", "lastPrice">>

FieldOrder == <<"currentPrice", "regularMarketPrice", "price", "lastPrice">>

Num(n) == [t |-> "num", v |-> n]

NoneValue == [t |-> "none", v |-> 0]

Text == [t |-> "text", v |-> 0]

Answer(info, hist) ==
    [tickerRaises |-> FALSE, info |-> info, histRaises |-> FALSE, hist |-> hist]

EmptyInfo == [f \in {} |-> NoneValue]

NetworkError ==
    [tickerRaises |-> TRUE, info |-> EmptyInfo, histRaises |-> FALSE, hist |-> <<>>]

HistoryError ==
    [tickerRaises |-> FALSE, info |-> EmptyInfo, histRaises |-> TRUE, hist |-> <<>>]

Responses ==
    { NetworkError,
      HistoryError,
      Answer([f \in {"currentPrice"} |-> Num(1)], <<>>),
      Answer([f \in {"currentPrice"} |-> Num(2)], <<>>),
      Answer([f \in {"currentPrice", "regularMarketPrice", "price"} |->
                 IF f = "currentPrice" THEN NoneValue
                 ELSE IF f = "regularMarketPrice" THEN Num(2) ELSE Num(1)], <<Num(1)>>),
      Answer([f \in {"lastPrice"} |-> Num(1)], <<Num(2)>>),
      Answer([f \in {"price"} |-> Text], <<>>),
      Answer(EmptyInfo, <<Num(2), Num(1)>>),
      Answer([f \in {"currentPrice"} |-> NoneValue], <<Num(2)>>),
      Answer(EmptyInfo, <<>>),
      Answer([f \in {"currentPrice", "lastPrice"} |-> NoneValue], <<>>) }

\* Raw answers for normalisation on its own: every combination of the four
\* fields being absent, None, a number or a text, with no, one or two
\* historical closes.  Closes and field values are different numbers.
FieldValues == {NoneValue, Num(1), Num(2), Text}

Infos == UNION {[F -> FieldValues] : F \in SUBSET {"currentPrice", "regularMarketPrice", "price", "lastPrice"}}

Closes == {<<>>, <<Num(3)>>, <<Num(3), Num(4)>>}

RawQuotes ==
    {NetworkError}
        \cup {Answer(info, hist) : info \in Infos, hist \in Closes}
        \cup {[tickerRaises |-> FALSE, info |-> info, histRaises |-> TRUE, hist |-> <<>>] :
                 info \in Infos}

----------------------------------------------------------------------------
(* Normalisation of a raw answer, lines 44-58 *)

\* Decimal(str(x)): a number converts to itself, anything else raises
\* decimal.InvalidOperation.
ToDecimal(raw) ==
    IF raw.t = "num" THEN [st |-> "price", v |-> raw.v]
    ELSE [st |-> "raise", v |-> 0]

\* for field in [...]: if field in info and info[field] is not None: ... break
RECURSIVE ProbeFrom(_, _)
ProbeFrom(info, i) ==
    IF i > Len(FieldOrder) THEN [st |-> "none", v |-> 0]
    ELSE IF FieldOrder[i] \in DOMAIN info /\ info[FieldOrder[i]].t # "none"
         THEN ToDecimal(info[FieldOrder[i]])
         ELSE ProbeFrom(info, i + 1)

ProbeFields(info) == ProbeFrom(info, 1)

\* if price is None: hist = ticker.history(...); if not hist.empty: Close.iloc[-1]
HistoryClose(resp) ==
    IF resp.histRaises THEN [st |-> "raise", v |-> 0]
    ELSE IF resp.hist = <<>> THEN [st |-> "none", v |-> 0]
    ELSE ToDecimal(resp.hist[Len(resp.hist)])

\* The try block up to the point where price is known: a price, no price,
\* or an exception.
FetchOutcome(resp) ==
    IF resp.tickerRaises THEN [st |-> "raise", v |-> 0]
    ELSE LET p == ProbeFields(resp.info)
         IN  IF p.st = "none" THEN HistoryClose(resp) ELSE p

----------------------------------------------------------------------------
(* The price cache, lines 33-37 and 62 *)

\* A variant that takes the five minutes of the cache for five seconds.
CacheFreshMinutes(cache, s, t) ==
    /\ s \in DOMAIN cache
    /\ t - cache[s][2] < 5

\* A variant that still serves an entry whose age is exactly the duration.
CacheFreshInclusive(cache, s, t) ==
    /\ s \in DOMAIN cache
    /\ t - cache[s][2] <= cache_duration

\* if symbol in cache and (now - cached_time).total_seconds() < duration
CacheFresh(cache, s, t) ==
    /\ s \in DOMAIN cache
    /\ t - cache[s][2] < cache_duration

\* A variant that keeps the cached_time of the entry it overwrites.
CacheStoreKeepTime(cache, s, p, t) ==
    [x \in DOMAIN cache \cup {s} |->
        IF x = s THEN <<p, IF s \in DOMAIN cache THEN cache[s][2] ELSE t>>
        ELSE cache[x]]

\* self._price_cache[symbol] = (price, datetime.now())
\* A store that keeps an entry already there (dict.setdefault).
CacheStoreFirstWins(cache, s, p, t) ==
    IF s \in DOMAIN cache THEN cache
    ELSE [x \in DOMAIN cache \cup {s} |-> IF x = s THEN <<p, t>> ELSE cache[x]]

\* A store that replaces the whole cache by the one entry.
CacheStoreEvictsOthers(cache, s, p, t) == [x \in {s} |-> <<p, t>>]

\* A store that only refreshes an entry still in the cache: an entry removed
\* while its fetch was in flight is not created again.
CacheStoreIfPresent(cache, s, p, t) ==
    IF s \in DOMAIN cache
    THEN [x \in DOMAIN cache |-> IF x = s THEN <<p, t>> ELSE cache[x]]
    ELSE cache

CacheStore(cache, s, p, t) ==
    [x \in DOMAIN cache \cup {s} |-> IF x = s THEN <<p, t>> ELSE cache[x]]

----------------------------------------------------------------------------
(* The persisted price history, lines 91-120 *)

Row(s, p, t) == [symbol |-> s, price |-> p, timestamp |-> t]

\* A store that keeps one row per symbol, the latest.
store_latest_only(h, s, p, t, dbOk) ==
    IF dbOk
    THEN Append(SelectSeq(h, LAMBDA r : r.symbol # s), Row(s, p, t))
    ELSE h

\* session.add(PriceHistory(...)); session.commit(); a failing session is
\* swallowed and leaves the table as it was.
store_price_history(h, s, p, t, dbOk) ==
    IF dbOk THEN Append(h, Row(s, p, t)) ELSE h

RowsOf(h, s) == {i \in 1..Len(h) : h[i].symbol = s}

\* A variant that orders by timestamp ascending.
LatestRowOldest(h, s) ==
    CHOOSE i \in RowsOf(h, s) :
        \A j \in RowsOf(h, s) :
            \/ h[j].timestamp > h[i].timestamp
            \/ (h[j].timestamp = h[i].timestamp /\ j >= i)

\* select where symbol == s order by timestamp desc limit 1
LatestRow(h, s) ==
    CHOOSE i \in RowsOf(h, s) :
        \A j \in RowsOf(h, s) :
            \/ h[j].timestamp < h[i].timestamp
            \/ (h[j].timestamp = h[i].timestamp /\ j <= i)

\* result.price if a row exists, None otherwise or when the session fails
get_last_known_price(h, s, dbOk) ==
    IF dbOk /\ RowsOf(h, s) # {} THEN Some(h[LatestRow(h, s)].price) ELSE None

----------------------------------------------------------------------------
(* Tasks: one get_current_price coroutine per slot.  sym, pc, result and
   exc are the coroutine (exc: it raised to its caller); out and db record
   what its fetch met: what the Quote Source call came to (FetchOutcome;
   NoOutcome before any) and whether the database session it then opened
   worked ("ok", "fail"; "-" when none was opened). *)

NoOutcome == [st |-> "-", v |-> 0]

EmptyCache == [x \in {} |-> <<0, 0>>]

IdleTask ==
    [sym |-> "", pc |-> "idle", result |-> None, exc |-> FALSE,
     out |-> NoOutcome, db |-> "-", inBatch |-> FALSE]

NoBatch == [state |-> "none", symbols |-> <<>>, slots |-> <<>>, price_dict |-> <<>>]

\* The price_history table outlives the process: the service starts with an
\* empty cache over a table that is empty or holds a Quote of an earlier run.
InitialHistories == {<<>>, <<Row("AAPL", 1, 0 - TickSeconds)>>}

\* clear_cache has not been called.
NoClearYet ==
    [happened |-> FALSE, started |-> FALSE, stored |-> EmptyCache, removed |-> {}]

\* clear_cache has just been called on `cache`.
JustCleared(cache) ==
    [happened |-> TRUE, started |-> FALSE, stored |-> EmptyCache,
     removed |-> DOMAIN cache]

\* get_current_price is called for each symbol of syms
CallNoted(record, syms) ==
    IF record.happened
    THEN [record EXCEPT !.started = TRUE, !.removed = @ \ syms]
    ELSE record

\* line 62 runs for symbol s
StoreNoted(record, s, p, t) ==
    IF record.happened
    THEN [record EXCEPT !.stored = [x \in DOMAIN record.stored \cup {s} |->
                                       IF x = s THEN <<p, t>> ELSE record.stored[x]]]
    ELSE record

ResolverInit ==
    /\ now = 0
    /\ price_cache = EmptyCache
    /\ history \in InitialHistories
    /\ tasks = [t \in Slots |-> IdleTask]
    /\ batch = NoBatch
    /\ callLog = <<>>
    /\ resolutions = 0
    /\ cleared = {}
    /\ sinceClear = NoClearYet

NormaliserIdle ==
    /\ rawQuote = NetworkError
    /\ normalized = NoOutcome

\* returned: "object", "none", "true", "false", or "-" when nothing was
\* returned
NoCall ==
    [op |-> "-", id |-> 0, symbol |-> None, quantity |-> None, purchase_price |-> None,
     raised |-> FALSE, returned |-> "-", rows |-> <<>>]

\* No call is suspended.
NoPending == [op |-> "-", id |-> 0, rows |-> <<>>]

\* Portfolio(...) as stored
Portfolio(id, name, description) == [id |-> id, name |-> name, description |-> description]

\* a portfolios table with portfolios 1 and 2
TwoPortfolios == <<Portfolio(1, "Growth", ""), Portfolio(2, "Growth", "")>>

NoPrices == [x \in {} |-> None]

\* PortfolioDashboard.__init__, and no page loaded yet
DashboardNew ==
    /\ dashboard = [auto_refresh |-> TRUE, refresh_timer |-> None]
    /\ timers = <<>>

\* No call made to PortfolioService yet.
PortfolioIdle ==
    /\ call = NoCall
    /\ prices = NoPrices
    /\ metrics = <<>>
    /\ summary = None
    /\ pending = NoPending

Init ==
    /\ ResolverInit
    /\ NormaliserIdle
    /\ holdings = <<>>
    /\ portfolios = <<>>
    /\ PortfolioIdle
    /\ DashboardNew

FreeSlots == {t \in Slots : tasks[t].pc = "idle"}

\* A coroutine that returns hands its value to the caller awaiting it
\* without yielding to the event loop: nothing else runs in between.
Returning ==
    \/ \E t \in Slots : tasks[t].pc = "done" /\ ~tasks[t].inBatch
    \/ batch.state = "joined"

RECURSIVE LowestFree(_, _)
LowestFree(free, n) ==
    IF n = 0 THEN <<>>
    ELSE LET m == CHOOSE x \in free : \A y \in free : x <= y
         IN  <<m>> \o LowestFree(free \ {m}, n - 1)

\* get_current_price up to its first suspension, lines 33-45: a fresh cache
\* entry is returned at once; otherwise the throttler is entered and the
\* Quote Source call is handed to the executor.
Started(task) ==
    IF CacheFresh(price_cache, task.sym, now)
    THEN [task EXCEPT !.pc = "done", !.result = Some(price_cache[task.sym][1])]
    ELSE [task EXCEPT !.pc = "fetching"]

\* async with self.throttler: __aenter__ returns at once
ThrottlerEnter(log, t) == Append(log, t)

RECURSIVE EnterAll(_, _, _)
EnterAll(log, t, n) ==
    IF n = 0 THEN log ELSE EnterAll(ThrottlerEnter(log, t), t, n - 1)

\* A direct call: await price_service.get_current_price(s)
get_current_price(s) ==
    /\ ~Returning
    /\ FreeSlots # {}
    /\ LET t == LowestFree(FreeSlots, 1)[1]
           task == Started([IdleTask EXCEPT !.sym = s])
       IN  /\ tasks' = [tasks EXCEPT ![t] = task]
           /\ callLog' = IF task.pc = "fetching"
                         THEN EnterAll(callLog, now, 1) ELSE callLog
    /\ resolutions' = resolutions + 1
    /\ cleared' = {}
    /\ sinceClear' = CallNoted(sinceClear, {s})
    /\ UNCHANGED <<now, price_cache, history, batch>>
    /\ UNCHANGED nonResolverVars

\* A variant whose fallback read lets a failing session propagate.
CompletedUnguarded(task, resp, dbOk) ==
    LET o == FetchOutcome(resp)
    IN  [task EXCEPT
           !.pc = "done",
           !.out = o,
           !.db = IF o.st = "none" THEN "-" ELSE IF dbOk THEN "ok" ELSE "fail",
           !.exc = o.st = "raise" /\ ~dbOk,
           !.result = IF o.st = "price" THEN Some(o.v)
                      ELSE IF o.st = "raise"
                           THEN get_last_known_price(history, task.sym, dbOk)
                           ELSE None]

\* A variant whose history append lets a failing session propagate: the
\* except clause of line 69 then answers from the fallback read.
CompletedAppendAborts(task, resp, dbOk) ==
    LET o == FetchOutcome(resp)
    IN  [task EXCEPT
           !.pc = "done",
           !.out = o,
           !.db = IF o.st = "none" THEN "-" ELSE IF dbOk THEN "ok" ELSE "fail",
           !.result = IF o.st = "price" /\ dbOk THEN Some(o.v)
                      ELSE IF o.st \in {"price", "raise"}
                           THEN get_last_known_price(history, task.sym, dbOk)
                           ELSE None]

\* The end of the try block, lines 60-74, once the Quote Source answered.
Completed(task, resp, dbOk) ==
    LET o == FetchOutcome(resp)
    IN  [task EXCEPT
           !.pc = "done",
           !.out = o,
           !.db = IF o.st = "none" THEN "-" ELSE IF dbOk THEN "ok" ELSE "fail",
           !.result = IF o.st = "price" THEN Some(o.v)
                      ELSE IF o.st = "raise"
                           THEN get_last_known_price(history, task.sym, dbOk)
                           ELSE None]

FetchComplete(t, resp, dbOk) ==
    /\ ~Returning
    /\ tasks[t].pc = "fetching"
    /\ LET o == FetchOutcome(resp)
           s == tasks[t].sym
       IN  /\ tasks' = [tasks EXCEPT ![t] = Completed(tasks[t], resp, dbOk)]
           /\ price_cache' = IF o.st = "price"
                             THEN CacheStore(price_cache, s, o.v, now)
                             ELSE price_cache
           /\ history' = IF o.st = "price"
                         THEN store_price_history(history, s, o.v, now, dbOk)
                         ELSE history
    /\ cleared' = {}
    /\ sinceClear' = IF FetchOutcome(resp).st = "price"
                     THEN StoreNoted(sinceClear, tasks[t].sym, FetchOutcome(resp).v, now)
                     ELSE sinceClear
    /\ UNCHANGED <<now, batch, callLog, resolutions>>
    /\ UNCHANGED nonResolverVars

\* The caller of a direct call takes the result.
Return(t) ==
    /\ tasks[t].pc = "done"
    /\ ~tasks[t].inBatch
    /\ tasks' = [tasks EXCEPT ![t] = IdleTask]
    /\ cleared' = {}
    /\ UNCHANGED sinceClear
    /\ UNCHANGED <<now, price_cache, history, batch, callLog, resolutions>>
    /\ UNCHANGED nonResolverVars

----------------------------------------------------------------------------
(* get_multiple_prices, lines 76-89 *)

\* tasks = [self.get_current_price(symbol) for symbol in symbols];
\* asyncio.gather schedules one task per coroutine.  For an empty list no
\* coroutine is made and gather is done at once: the await of line 79 does
\* not suspend and the empty mapping is returned in the same callback.
Gathered(symbols) ==
    /\ ~Returning
    /\ batch.state = "none"
    /\ Cardinality(FreeSlots) >= Len(symbols)
    /\ LET slots == LowestFree(FreeSlots, Len(symbols))
       IN  /\ batch' = [state |-> IF symbols = <<>> THEN "joined" ELSE "running",
                        symbols |-> symbols,
                        slots |-> slots, price_dict |-> <<>>]
           /\ tasks' = [t \in Slots |->
                          IF \E i \in 1..Len(slots) : slots[i] = t
                          THEN LET i == CHOOSE i \in 1..Len(slots) : slots[i] = t
                               IN  [IdleTask EXCEPT !.sym = symbols[i],
                                                    !.pc = "created",
                                                    !.inBatch = TRUE]
                          ELSE tasks[t]]
    /\ resolutions' = resolutions + Len(symbols)
    /\ cleared' = {}
    /\ sinceClear' = IF symbols = <<>> THEN sinceClear
                     ELSE CallNoted(sinceClear, {symbols[i] : i \in 1..Len(symbols)})
    /\ UNCHANGED <<now, price_cache, history, callLog>>

\* A call whose caller is not followed further.
get_multiple_prices(symbols) ==
    /\ Gathered(symbols)
    /\ UNCHANGED nonResolverVars

\* A variant that awaits the resolutions one after the other: a task starts
\* only once every task before it in the list is done.
TasksToStartSequential ==
    {t \in Slots : /\ tasks[t].pc = "created"
                   /\ \A u \in Slots : (u < t /\ tasks[u].inBatch) => tasks[u].pc = "done"}

\* The tasks gather has scheduled and the event loop runs next: all of them,
\* each to its first suspension, before any other callback.
TasksToStart == {t \in Slots : tasks[t].pc = "created"}

RunTasks ==
    /\ ~Returning
    /\ TasksToStart # {}
    /\ LET started == [t \in Slots |->
                          IF t \in TasksToStart THEN Started(tasks[t]) ELSE tasks[t]]
           misses == {t \in TasksToStart : started[t].pc = "fetching"}
       IN  /\ tasks' = started
           /\ callLog' = EnterAll(callLog, now, Cardinality(misses))
    /\ cleared' = {}
    /\ UNCHANGED sinceClear
    /\ UNCHANGED <<now, price_cache, history, batch, resolutions>>
    /\ UNCHANGED nonResolverVars

\* isinstance(result, Exception) -> None, else the result
Joined(task) == IF task.exc THEN None ELSE task.result

\* A variant that leaves out the symbols that resolved to None.
PriceDictDropsNone(symbols, slots) ==
    [s \in {symbols[i] : i \in {j \in 1..Len(symbols) : tasks[slots[j]].result # None}} |->
        LET last == CHOOSE i \in 1..Len(symbols) :
                        /\ symbols[i] = s
                        /\ \A j \in 1..Len(symbols) : symbols[j] = s => j <= i
        IN  Joined(tasks[slots[last]])]

\* A variant in which one resolution without a price voids the whole batch.
PriceDictAbortOnFailure(symbols, slots) ==
    [s \in {symbols[i] : i \in 1..Len(symbols)} |->
        LET last == CHOOSE i \in 1..Len(symbols) :
                        /\ symbols[i] = s
                        /\ \A j \in 1..Len(symbols) : symbols[j] = s => j <= i
        IN  IF \E j \in 1..Len(symbols) : tasks[slots[j]].result = None
            THEN None ELSE Joined(tasks[slots[last]])]

\* A variant that keeps the result of a symbol's first occurrence.
PriceDictFirstOccurrence(symbols, slots) ==
    [s \in {symbols[i] : i \in 1..Len(symbols)} |->
        LET first == CHOOSE i \in 1..Len(symbols) :
                         /\ symbols[i] = s
                         /\ \A j \in 1..Len(symbols) : symbols[j] = s => i <= j
        IN  Joined(tasks[slots[first]])]

\* for symbol, result in zip(symbols, results): price_dict[symbol] = ...
\* (a later occurrence of a symbol overwrites an earlier one)
PriceDict(symbols, slots) ==
    [s \in {symbols[i] : i \in 1..Len(symbols)} |->
        LET last == CHOOSE i \in 1..Len(symbols) :
                        /\ symbols[i] = s
                        /\ \A j \in 1..Len(symbols) : symbols[j] = s => j <= i
        IN  Joined(tasks[slots[last]])]

GatherJoin ==
    /\ ~Returning
    /\ batch.state = "running"
    /\ \A i \in 1..Len(batch.slots) : tasks[batch.slots[i]].pc = "done"
    /\ batch' = [batch EXCEPT !.state = "joined",
                              !.price_dict = PriceDict(batch.symbols, batch.slots)]
    /\ cleared' = {}
    /\ UNCHANGED sinceClear
    /\ UNCHANGED <<now, price_cache, history, tasks, callLog, resolutions>>
    /\ UNCHANGED nonResolverVars

\* return price_dict, line 89: the coroutine ends.
Returned ==
    /\ batch.state = "joined"
    /\ batch' = NoBatch
    /\ tasks' = [t \in Slots |-> IF tasks[t].inBatch THEN IdleTask ELSE tasks[t]]
    /\ cleared' = {}
    /\ UNCHANGED sinceClear
    /\ UNCHANGED <<now, price_cache, history, callLog, resolutions>>

\* The caller of get_multiple_prices takes the mapping.
BatchReturn ==
    /\ Returned
    /\ UNCHANGED nonResolverVars

----------------------------------------------------------------------------
(* The clock *)

RECURSIVE Since(_, _)
Since(log, t) ==
    IF log = <<>> THEN <<>>
    ELSE IF log[1] > t THEN <<log[1]>> \o Since(Tail(log), t)
    ELSE Since(Tail(log), t)

Tick ==
    /\ ~Returning
    /\ now + TickSeconds <= MaxTime
    /\ now' = now + TickSeconds
    /\ callLog' = Since(callLog, now' - period)
    /\ cleared' = {}
    /\ UNCHANGED sinceClear
    /\ UNCHANGED <<price_cache, history, tasks, batch, resolutions>>
    /\ UNCHANGED nonResolverVars

\* dict.clear() on a cache that would drop only the entries past their
\* duration.
ClearStaleOnly(cache) ==
    [x \in {y \in DOMAIN cache : now - cache[y][2] < cache_duration} |-> cache[x]]

\* self._price_cache.clear(): no entry is left, whatever its age.
Clear(cache) == EmptyCache

\* clear_cache(): a synchronous call, it runs between two steps of the
\* coroutines and touches nothing but the cache.
clear_cache ==
    /\ ~Returning
    /\ price_cache' = Clear(price_cache)
    /\ cleared' = DOMAIN price_cache
    /\ sinceClear' = JustCleared(price_cache)
    /\ UNCHANGED <<now, history, tasks, batch, callLog, resolutions>>
    /\ UNCHANGED nonResolverVars

----------------------------------------------------------------------------
(* Specifications *)

SymbolLists == UNION {[1..n -> Symbols] : n \in 0..MaxBatchLen}

Next ==
    \/ \E s \in Symbols :
          /\ resolutions < MaxResolutions
          /\ get_current_price(s)
    \/ \E symbols \in SymbolLists :
          /\ resolutions + Len(symbols) <= MaxResolutions
          /\ get_multiple_prices(symbols)
    \/ RunTasks
    \/ \E t \in Slots, resp \in Responses, dbOk \in BOOLEAN :
          /\ FetchComplete(t, resp, dbOk)
    \/ \E t \in Slots : Return(t)
    \/ GatherJoin
    \/ BatchReturn
    \/ Tick

Spec == Init /\ [][Next]_vars

\* An outage of the Quote Source: direct calls for one symbol, every one of
\* which fails, for as long as the throttler lets calls through.
BurstNext ==
    \/ /\ Len(callLog) <= rate_limit
       /\ get_current_price("AAPL")
    \/ \E t \in Slots : FetchComplete(t, NetworkError, TRUE)
    \/ \E t \in Slots : Return(t)
    \/ Tick

SpecBurst == Init /\ [][BurstNext]_vars

\* Normalisation alone: any raw answer of RawQuotes is put through lines
\* 44-58 once.
Normalize ==
    /\ normalized = NoOutcome
    /\ normalized' = FetchOutcome(rawQuote)
    /\ UNCHANGED <<rawQuote, resolverVars, portfolioVars, dashboardVars>>

NormalizeInit ==
    /\ ResolverInit
    /\ rawQuote \in RawQuotes
    /\ normalized = NoOutcome
    /\ holdings = <<>>
    /\ portfolios = <<>>
    /\ PortfolioIdle
    /\ DashboardNew

SpecNormalize == NormalizeInit /\ [][Normalize]_vars

\* A Quote Source that answers with any number, zero and negative ones
\* included, in a field or as the last close.
AnyNumberResponses ==
    {Answer([f \in {"currentPrice"} |-> Num(n)], <<>>) : n \in {0 - 1, 0, 1}}
        \cup {Answer(EmptyInfo, <<Num(n)>>) : n \in {0 - 1, 0, 1}}

AnyNumberNext ==
    \/ \E s \in Symbols :
          /\ resolutions < MaxResolutions
          /\ get_current_price(s)
    \/ \E t \in Slots, resp \in AnyNumberResponses, dbOk \in BOOLEAN :
          /\ FetchComplete(t, resp, dbOk)
    \/ \E t \in Slots : Return(t)
    \/ Tick

SpecAnyNumber == Init /\ [][AnyNumberNext]_vars

\* The cache being cleared between, and while, direct calls are served.
ClearNext ==
    \/ \E s \in Symbols :
          /\ resolutions < MaxResolutions
          /\ get_current_price(s)
    \/ \E t \in Slots, resp \in Responses, dbOk \in BOOLEAN :
          /\ FetchComplete(t, resp, dbOk)
    \/ \E t \in Slots : Return(t)
    \/ Tick
    \/ clear_cache

SpecClear == Init /\ [][ClearNext]_vars

\* Calls that follow a clear_cache: one call more than above, so that a call
\* can follow a clear_cache that found an entry while another call was in
\* flight.  The Quote Source fails or gives one of two prices, and the
\* database session works.
FollowNext ==
    \/ \E s \in Symbols :
          /\ resolutions < MaxResolutions + 1
          /\ get_current_price(s)
    \/ \E t \in Slots,
          resp \in { NetworkError,
                     Answer([f \in {"currentPrice"} |-> Num(1)], <<>>),
                     Answer([f \in {"currentPrice"} |-> Num(2)], <<>>) } :
          /\ FetchComplete(t, resp, TRUE)
    \/ \E t \in Slots : Return(t)
    \/ Tick
    \/ clear_cache

SpecFollow == Init /\ [][FollowNext]_vars

----------------------------------------------------------------------------
(* Decimal arithmetic of portfolio_service.py.  Quantities and prices are
   whole numbers of their smallest unit, and their products, sums and
   differences are exact.  A quotient is kept as the fraction <<n, d>> in
   lowest terms with d > 0: on the amounts of this model the 28-digit
   rounding of Decimal division neither merges two different quotients nor
   changes their order. *)

Abs(x) == IF x < 0 THEN 0 - x ELSE x

RECURSIVE GCD(_, _)
GCD(a, b) == IF b = 0 THEN a ELSE GCD(b, a % b)

\* a / b for b > 0
Quotient(a, b) ==
    LET g == GCD(Abs(a), b)
    IN  <<(Abs(a) \div g) * (IF a < 0 THEN 0 - 1 ELSE 1), b \div g>>

\* q * Decimal("100")
TimesDecimal(q, k) == Quotient(q[1] * k, q[2])

\* Decimal("0")
DecimalZero == <<0, 1>>

\* a < b, a > b on quotients
Less(a, b) == a[1] * b[2] < b[1] * a[2]

Greater(a, b) == Less(b, a)

----------------------------------------------------------------------------
(* The holdings table and the schemas that guard it, models.py *)

\* the symbol stored as it was given
AsGiven(s) == s

\* str.upper() on the symbols a request can carry
upper(s) == IF s \in {"aapl", "Aapl"} THEN "AAPL" ELSE s

\* Holding(...) as stored: session.add, commit, refresh give it its id
Holding(id, portfolio_id, symbol, quantity, purchase_price) ==
    [id |-> id, portfolio_id |-> portfolio_id, symbol |-> symbol,
     quantity |-> quantity, purchase_price |-> purchase_price]

\* Field(ge=0) in place of Field(gt=0)
FieldGe0(x) == x >= 0

\* Field(gt=0): the value passes validation
FieldGt0(x) == x > 0

\* HoldingCreate(...): quantity and purchase_price are required and gt=0;
\* FALSE stands for pydantic's ValidationError
HoldingCreate(quantity, purchase_price) ==
    FieldGt0(quantity) /\ FieldGt0(purchase_price)

\* HoldingUpdate(...): both are Optional, gt=0 applies to a value given
HoldingUpdate(quantity, purchase_price) ==
    /\ quantity # None => FieldGt0(quantity[1])
    /\ purchase_price # None => FieldGt0(purchase_price[1])

----------------------------------------------------------------------------
(* add_holding and update_holding, portfolio_service.py lines 76-128, each
   with the construction of the schema its caller hands over *)

PortfolioIds == {1, 2}

RequestSymbols == {"AAPL", "aapl", "Aapl"}

RequestDecimals == {0 - 1, 0, 1, 2}

HoldingIds == 1..(MaxRows + 1)

Optional(S) == {None} \cup {Some(x) : x \in S}

\* the id the database gives the next row: above every id in the table
NextId(h) ==
    LET ids == {h[i].id : i \in 1..Len(h)}
    IN  IF ids = {} THEN 1 ELSE (CHOOSE m \in ids : \A x \in ids : x <= m) + 1

\* session.get(Holding, holding_id): the positions of the row, if any
RowOf(h, id) == {i \in 1..Len(h) : h[i].id = id}

add_holding(portfolio_id, symbol, quantity, purchase_price) ==
    /\ IF HoldingCreate(quantity, purchase_price)
       THEN /\ Len(holdings) < MaxRows
            /\ holdings' = Append(holdings,
                                  Holding(NextId(holdings), portfolio_id, upper(symbol),
                                          quantity, purchase_price))
            /\ call' = [op |-> "add_holding", id |-> NextId(holdings),
                        symbol |-> Some(symbol),
                        quantity |-> Some(quantity),
                        purchase_price |-> Some(purchase_price), raised |-> FALSE,
                        returned |-> "object", rows |-> <<>>]
       ELSE /\ holdings' = holdings
            /\ call' = [op |-> "add_holding", id |-> 0,
                        symbol |-> Some(symbol),
                        quantity |-> Some(quantity),
                        purchase_price |-> Some(purchase_price), raised |-> TRUE,
                        returned |-> "-", rows |-> <<>>]
    /\ UNCHANGED <<prices, metrics, summary, pending, portfolios, resolverVars, normaliserVars,
                   dashboardVars>>

\* the assignments of lines 111-122 on one row
Updated(row, symbol, quantity, purchase_price) ==
    [row EXCEPT
        !.symbol = IF symbol # None THEN upper(symbol[1]) ELSE @,
        !.quantity = IF quantity # None THEN quantity[1] ELSE @,
        !.purchase_price = IF purchase_price # None THEN purchase_price[1] ELSE @]

update_holding(holding_id, symbol, quantity, purchase_price) ==
    /\ IF ~HoldingUpdate(quantity, purchase_price)
       THEN /\ holdings' = holdings
            /\ call' = [op |-> "update_holding", id |-> holding_id,
                        symbol |-> symbol,
                        quantity |-> quantity, purchase_price |-> purchase_price,
                        raised |-> TRUE, returned |-> "-", rows |-> <<>>]
       ELSE /\ holdings' =
                  [i \in 1..Len(holdings) |->
                      IF holdings[i].id = holding_id
                      THEN Updated(holdings[i], symbol, quantity, purchase_price)
                      ELSE holdings[i]]
            /\ call' = [op |-> "update_holding", id |-> holding_id,
                        symbol |-> symbol,
                        quantity |-> quantity, purchase_price |-> purchase_price,
                        raised |-> FALSE,
                        returned |-> IF RowOf(holdings, holding_id) = {}
                                     THEN "none" ELSE "object",
                        rows |-> <<>>]
    /\ UNCHANGED <<prices, metrics, summary, pending, portfolios, resolverVars, normaliserVars,
                   dashboardVars>>

\* The caller of a PortfolioService method takes what it returned or raised.
ReturnToCaller ==
    /\ call # NoCall
    /\ call' = NoCall
    /\ UNCHANGED <<holdings, prices, metrics, summary, pending, portfolios, resolverVars, normaliserVars,
                   dashboardVars>>

\* The methods are synchronous: one call at a time.
HoldingsNext ==
    \/ \E portfolio_id \in PortfolioIds, symbol \in RequestSymbols,
          quantity \in RequestDecimals, purchase_price \in RequestDecimals :
          /\ call = NoCall
          /\ add_holding(portfolio_id, symbol, quantity, purchase_price)
    \/ \E holding_id \in HoldingIds, symbol \in Optional(RequestSymbols),
          quantity \in Optional(RequestDecimals),
          purchase_price \in Optional(RequestDecimals) :
          /\ call = NoCall
          /\ update_holding(holding_id, symbol, quantity, purchase_price)
    \/ ReturnToCaller

\* an empty holdings table
HoldingsInit ==
    /\ ResolverInit
    /\ history = <<>>
    /\ NormaliserIdle
    /\ holdings = <<>>
    /\ portfolios = TwoPortfolios
    /\ PortfolioIdle
    /\ DashboardNew

SpecHoldings == HoldingsInit /\ [][HoldingsNext]_vars

----------------------------------------------------------------------------
(* get_holdings_with_metrics, portfolio_service.py lines 141-191 *)

\* ORDER BY symbol on the symbols the table holds
Collation(symbol) == IF symbol = "AAPL" THEN 1 ELSE 2

\* the orders of 1..n in which the symbols of rows do not descend
Orders(rows) ==
    {p \in [1..Len(rows) -> 1..Len(rows)] :
        /\ \A i, j \in 1..Len(rows) : i # j => p[i] # p[j]
        /\ \A i, j \in 1..Len(rows) :
              i < j => Collation(rows[p[i]].symbol) <= Collation(rows[p[j]].symbol)}

\* select(Holding).where(portfolio_id == ...).order_by(Holding.symbol): the
\* order of rows with the same symbol is the database's choice
get_portfolio_holdings(h, portfolio_id) ==
    LET rows == SelectSeq(h, LAMBDA r : r.portfolio_id = portfolio_id)
    IN  {[i \in 1..Len(rows) |-> rows[p[i]]] : p \in Orders(rows)}

\* a missing price taken for a price of zero
CurrentPriceOrZero(price_dict, symbol) ==
    IF symbol \in DOMAIN price_dict /\ price_dict[symbol] # None
    THEN price_dict[symbol]
    ELSE Some(0)

\* prices.get(holding.symbol)
CurrentPrice(price_dict, symbol) ==
    IF symbol \in DOMAIN price_dict THEN price_dict[symbol] ELSE None

\* the return as a fraction of the cost, not as a percentage
PercentageReturnAsFraction(absolute_return, total_cost) ==
    IF total_cost > 0 THEN Some(Quotient(absolute_return, total_cost)) ELSE None

\* if total_cost > 0: (absolute_return / total_cost) * Decimal("100")
PercentageReturn(absolute_return, total_cost) ==
    IF total_cost > 0
    THEN Some(TimesDecimal(Quotient(absolute_return, total_cost), 100))
    ELSE None

\* lines 156-188 for one holding
HoldingWithMetrics(holding, price_dict) ==
    LET current_price == CurrentPrice(price_dict, holding.symbol)
        total_cost == holding.quantity * holding.purchase_price
        current_value == holding.quantity * current_price[1]
        absolute_return == current_value - total_cost
    IN  [id |-> holding.id,
         portfolio_id |-> holding.portfolio_id,
         symbol |-> holding.symbol,
         quantity |-> holding.quantity,
         purchase_price |-> holding.purchase_price,
         current_price |-> current_price,
         total_cost |-> Some(total_cost),
         current_value |-> IF current_price # None THEN Some(current_value) ELSE None,
         absolute_return |-> IF current_price # None THEN Some(absolute_return) ELSE None,
         percentage_return |-> IF current_price # None
                               THEN PercentageReturn(absolute_return, total_cost)
                               ELSE None]

\* the list built by the loop of lines 153-189; every stored row has an id
ValueHoldings(hs, price_dict) ==
    [i \in 1..Len(hs) |-> HoldingWithMetrics(hs[i], price_dict)]

\* the rows of the table that the portfolio has
HeldBy(portfolio_id) == {i \in 1..Len(holdings) : holdings[i].portfolio_id = portfolio_id}

\* symbols = [h.symbol for h in holdings], line 149
SymbolsOf(hs) == [i \in 1..Len(hs) |-> hs[i].symbol]

\* The call up to its first suspension, lines 143-150: the rows are read, and
\* with no row the call returns at once; otherwise get_multiple_prices is
\* entered, which suspends at its gather, line 79.
get_holdings_with_metrics(portfolio_id) ==
    /\ ~Returning
    /\ pending = NoPending
    /\ \E hs \in get_portfolio_holdings(holdings, portfolio_id) :
          IF hs = <<>>
          THEN /\ call' = [NoCall EXCEPT !.op = "get_holdings_with_metrics",
                                         !.id = portfolio_id, !.returned = "object"]
               /\ prices' = NoPrices
               /\ metrics' = <<>>
               /\ summary' = None
               /\ UNCHANGED <<pending, resolverVars>>
          ELSE /\ Gathered(SymbolsOf(hs))
               /\ pending' = [op |-> "get_holdings_with_metrics", id |-> portfolio_id,
                              rows |-> hs]
               /\ UNCHANGED <<call, prices, metrics, summary>>
    /\ UNCHANGED <<holdings, portfolios, normaliserVars, dashboardVars>>

\* The rest of the call, lines 152-191, once get_multiple_prices returned:
\* the rows read before the wait are valued.
holdings_with_metrics_resumed ==
    /\ pending.op = "get_holdings_with_metrics"
    /\ Returned
    /\ prices' = batch.price_dict
    /\ metrics' = ValueHoldings(pending.rows, batch.price_dict)
    /\ summary' = None
    /\ call' = [NoCall EXCEPT !.op = "get_holdings_with_metrics", !.id = pending.id,
                              !.returned = "object", !.rows = pending.rows]
    /\ pending' = NoPending
    /\ UNCHANGED <<holdings, portfolios, normaliserVars, dashboardVars>>

----------------------------------------------------------------------------
(* get_portfolio_summary, portfolio_service.py lines 193-254 *)

\* the portfolios table: get_portfolio(portfolio_id) finds these
ExistingPortfolios == {portfolios[i].id : i \in 1..Len(portfolios)}

\* if x is not None: total += x
RECURSIVE Total(_)
Total(values) ==
    IF values = <<>> THEN 0
    ELSE (IF Head(values) # None THEN Head(values)[1] ELSE 0) + Total(Tail(values))

\* the return as a percentage of the current value
TotalPercentageOfValue(total_absolute_return, total_cost) ==
    IF total_absolute_return + total_cost > 0
    THEN TimesDecimal(Quotient(total_absolute_return, total_absolute_return + total_cost), 100)
    ELSE DecimalZero

\* (total_absolute_return / total_cost * Decimal("100")) if total_cost > 0
\* else Decimal("0")
TotalPercentageReturn(total_absolute_return, total_cost) ==
    IF total_cost > 0
    THEN TimesDecimal(Quotient(total_absolute_return, total_cost), 100)
    ELSE DecimalZero

NoPerformers ==
    [best_performer |-> None, worst_performer |-> None,
     best_return |-> None, worst_return |-> None]

\* a scan whose comparisons are >= and <=
ScanStepLaterTieWins(acc, holding) ==
    IF holding.percentage_return = None THEN acc
    ELSE LET pr == holding.percentage_return[1]
             a1 == IF acc.best_return = None \/ ~Less(pr, acc.best_return[1])
                   THEN [acc EXCEPT !.best_return = Some(pr),
                                    !.best_performer = Some(holding.symbol)]
                   ELSE acc
         IN  IF a1.worst_return = None \/ ~Greater(pr, a1.worst_return[1])
             THEN [a1 EXCEPT !.worst_return = Some(pr),
                             !.worst_performer = Some(holding.symbol)]
             ELSE a1

\* a scan whose second test is an elif of the first
ScanStepElif(acc, holding) ==
    IF holding.percentage_return = None THEN acc
    ELSE LET pr == holding.percentage_return[1]
         IN  IF acc.best_return = None \/ Greater(pr, acc.best_return[1])
             THEN [acc EXCEPT !.best_return = Some(pr),
                              !.best_performer = Some(holding.symbol)]
             ELSE IF acc.worst_return = None \/ Less(pr, acc.worst_return[1])
             THEN [acc EXCEPT !.worst_return = Some(pr),
                              !.worst_performer = Some(holding.symbol)]
             ELSE acc

\* the body of the loop of lines 234-241
ScanStep(acc, holding) ==
    IF holding.percentage_return = None THEN acc
    ELSE LET pr == holding.percentage_return[1]
             a1 == IF acc.best_return = None \/ Greater(pr, acc.best_return[1])
                   THEN [acc EXCEPT !.best_return = Some(pr),
                                    !.best_performer = Some(holding.symbol)]
                   ELSE acc
         IN  IF a1.worst_return = None \/ Less(pr, a1.worst_return[1])
             THEN [a1 EXCEPT !.worst_return = Some(pr),
                             !.worst_performer = Some(holding.symbol)]
             ELSE a1

RECURSIVE Scan(_, _, _)
Scan(holdings_with_metrics, i, acc) ==
    IF i > Len(holdings_with_metrics) THEN acc
    ELSE Scan(holdings_with_metrics, i + 1, ScanStep(acc, holdings_with_metrics[i]))

\* lines 202-254, given the list get_holdings_with_metrics returned
PortfolioSummary(portfolio_id, holdings_with_metrics) ==
    IF holdings_with_metrics = <<>>
    THEN [portfolio_id |-> portfolio_id,
          total_holdings |-> 0,
          total_cost |-> 0,
          total_current_value |-> 0,
          total_absolute_return |-> 0,
          total_percentage_return |-> DecimalZero,
          best_performer |-> None,
          worst_performer |-> None]
    ELSE LET n == Len(holdings_with_metrics)
             total_cost == Total([i \in 1..n |-> holdings_with_metrics[i].total_cost])
             total_current_value ==
                 Total([i \in 1..n |-> holdings_with_metrics[i].current_value])
             total_absolute_return == total_current_value - total_cost
             found == Scan(holdings_with_metrics, 1, NoPerformers)
         IN  [portfolio_id |-> portfolio_id,
              total_holdings |-> n,
              total_cost |-> total_cost,
              total_current_value |-> total_current_value,
              total_absolute_return |-> total_absolute_return,
              total_percentage_return |->
                  TotalPercentageReturn(total_absolute_return, total_cost),
              best_performer |-> found.best_performer,
              worst_performer |-> found.worst_performer]

\* The call up to its first suspension, lines 195-199: without the
\* portfolio it returns none, without holdings the summary of zeros.
get_portfolio_summary(portfolio_id) ==
    /\ ~Returning
    /\ pending = NoPending
    /\ IF portfolio_id \notin ExistingPortfolios
       THEN /\ call' = [NoCall EXCEPT !.op = "get_portfolio_summary", !.id = portfolio_id,
                                      !.returned = "none"]
            /\ summary' = None
            /\ prices' = NoPrices
            /\ metrics' = <<>>
            /\ UNCHANGED <<pending, resolverVars>>
       ELSE \E hs \in get_portfolio_holdings(holdings, portfolio_id) :
               IF hs = <<>>
               THEN /\ call' = [NoCall EXCEPT !.op = "get_portfolio_summary",
                                              !.id = portfolio_id, !.returned = "object"]
                    /\ prices' = NoPrices
                    /\ metrics' = <<>>
                    /\ summary' = Some(PortfolioSummary(portfolio_id, <<>>))
                    /\ UNCHANGED <<pending, resolverVars>>
               ELSE /\ Gathered(SymbolsOf(hs))
                    /\ pending' = [op |-> "get_portfolio_summary", id |-> portfolio_id,
                                   rows |-> hs]
                    /\ UNCHANGED <<call, prices, metrics, summary>>
    /\ UNCHANGED <<holdings, portfolios, normaliserVars, dashboardVars>>

\* The rest of the call, lines 201-254, once get_holdings_with_metrics
\* returned the valuation of the rows read before the wait.
portfolio_summary_resumed ==
    /\ pending.op = "get_portfolio_summary"
    /\ Returned
    /\ prices' = batch.price_dict
    /\ metrics' = ValueHoldings(pending.rows, batch.price_dict)
    /\ summary' = Some(PortfolioSummary(pending.id,
                                        ValueHoldings(pending.rows, batch.price_dict)))
    /\ call' = [NoCall EXCEPT !.op = "get_portfolio_summary", !.id = pending.id,
                              !.returned = "object", !.rows = pending.rows]
    /\ pending' = NoPending
    /\ UNCHANGED <<holdings, portfolios, normaliserVars, dashboardVars>>

----------------------------------------------------------------------------
(* Steps of a resolution, as seen in a transition *)

\* Task t runs from its call to its first suspension in this step.
Starts(t) ==
    /\ tasks[t].pc \in {"idle", "created"}
    /\ tasks'[t].pc \in {"fetching", "done"}

\* Task t's Quote Source call is answered in this step.
Completes(t) ==
    /\ tasks[t].pc = "fetching"
    /\ tasks'[t].pc = "done"

\* The cache holds an entry for s of age below / at least the duration.
HasFresh(s) ==
    /\ s \in DOMAIN price_cache
    /\ now - price_cache[s][2] < cache_duration

HasStale(s) ==
    /\ s \in DOMAIN price_cache
    /\ now - price_cache[s][2] >= cache_duration

\* Quote Source calls begun (throttler entries made) in this step.
CallsBegun == Len(callLog') - Len(callLog)

\* The price of the Quote appended last for s.
LastAppended(h, s) ==
    h[CHOOSE i \in RowsOf(h, s) : \A j \in RowsOf(h, s) : j <= i].price

----------------------------------------------------------------------------
(* C1: a resolution that starts while the cache holds an entry for its
   symbol younger than the cache duration (300 s) returns exactly the cached
   price at once, and begins no Quote Source call and enters no throttler:
   the calls begun in the step are those of the tasks that start without a
   fresh entry. *)
C1_FreshEntryIsServed ==
    [][\A t \in Slots :
          (Starts(t) /\ HasFresh(tasks'[t].sym)) =>
              /\ tasks'[t].pc = "done"
              /\ ~tasks'[t].exc
              /\ tasks'[t].result = Some(price_cache[tasks'[t].sym][1])
              /\ CallsBegun =
                    Cardinality({u \in Slots : Starts(u) /\ ~HasFresh(tasks'[u].sym)})
      ]_vars

\* A call was answered from an entry cached one tick earlier.
C1_Witness ==
    \E t \in Slots :
        /\ tasks[t].pc = "done"
        /\ tasks[t].out = NoOutcome
        /\ tasks[t].sym \in DOMAIN price_cache
        /\ tasks[t].result = Some(price_cache[tasks[t].sym][1])
        /\ now - price_cache[tasks[t].sym][2] = TickSeconds

(* C2: a resolution that starts while the cache entry of its symbol has
   age >= the cache duration (300 s) is not answered from the cache: it
   returns nothing at that point, enters the throttler and begins a Quote
   Source call at the current time. *)
C2_StaleEntryRefetches ==
    [][\A t \in Slots :
          (Starts(t) /\ HasStale(tasks'[t].sym)) =>
              /\ tasks'[t].pc = "fetching"
              /\ tasks'[t].result = None
              /\ CallsBegun >= 1
              /\ callLog'[Len(callLog')] = now
      ]_vars

\* A Quote Source call is in flight, begun now, for a symbol whose cache
\* entry is stale.
C2_Witness ==
    \E t \in Slots :
        /\ tasks[t].pc = "fetching"
        /\ HasStale(tasks[t].sym)
        /\ callLog # <<>>
        /\ callLog[Len(callLog)] = now

(* C3 as claimed: whenever the Quote Source call for S fails with an error
   and the history holds a Quote for S, the resolution returns the price of
   the Quote appended last for S. *)
C3_FallbackAlways ==
    [][\A t \in Slots :
          (/\ Completes(t)
           /\ tasks'[t].out.st = "raise"
           /\ RowsOf(history, tasks[t].sym) # {}) =>
              tasks'[t].result = Some(LastAppended(history, tasks[t].sym))
      ]_vars

(* C3 as amended: whenever the Quote Source call for S fails with an error,
   the history holds a Quote for S and the fallback read of the history
   succeeds, the resolution returns the price of the Quote appended last
   for S; when the read fails it returns none. *)
C3_FallbackWhenReadable ==
    [][\A t \in Slots :
          (/\ Completes(t)
           /\ tasks'[t].out.st = "raise"
           /\ RowsOf(history, tasks[t].sym) # {}) =>
              /\ ~tasks'[t].exc
              /\ tasks'[t].result =
                    IF tasks'[t].db = "ok"
                    THEN Some(LastAppended(history, tasks[t].sym))
                    ELSE None
      ]_vars

\* A failed call was answered with the later of two Quotes of different
\* prices recorded for its symbol.
C3_Witness ==
    \E t \in Slots :
        /\ tasks[t].pc = "done"
        /\ tasks[t].out.st = "raise"
        /\ tasks[t].db = "ok"
        /\ \E i, j \in RowsOf(history, tasks[t].sym) :
              /\ i < j
              /\ history[i].price # history[j].price
              /\ \A k \in RowsOf(history, tasks[t].sym) : k <= j
              /\ tasks[t].result = Some(history[j].price)

(* C4: whenever the Quote Source call for S fails with an error and the
   history holds no Quote for S, the resolution returns none, and it does
   not raise to its caller, whether or not the database session works. *)
C4_NoHistoryGivesNone ==
    [][\A t \in Slots :
          (/\ Completes(t)
           /\ tasks'[t].out.st = "raise"
           /\ RowsOf(history, tasks[t].sym) = {}) =>
              /\ tasks'[t].result = None
              /\ ~tasks'[t].exc
      ]_vars

\* A failed call for a symbol without history returned none.
C4_Witness ==
    \E t \in Slots :
        /\ tasks[t].pc = "done"
        /\ tasks[t].out.st = "raise"
        /\ tasks[t].result = None
        /\ ~tasks[t].exc
        /\ RowsOf(history, tasks[t].sym) = {}

(* C5 as claimed: whenever the Quote Source answers without error but no
   price is obtainable (no probed field present, historical close empty)
   and the history holds a Quote for S, the resolution returns the price of
   the most recent persisted Quote for S. *)
C5_NoPriceFallsBack ==
    [][\A t \in Slots :
          (/\ Completes(t)
           /\ tasks'[t].out.st = "none"
           /\ RowsOf(history, tasks[t].sym) # {}) =>
              tasks'[t].result = Some(LastAppended(history, tasks[t].sym))
      ]_vars

(* C6: once get_multiple_prices has joined its results, the keys of the
   mapping are exactly the symbols of the input list, and a symbol all of
   whose resolutions returned none or raised maps to none. *)
C6_KeysAreTheInputSymbols ==
    batch.state = "joined" =>
        /\ DOMAIN batch.price_dict =
              {batch.symbols[i] : i \in 1..Len(batch.symbols)}
        /\ \A s \in DOMAIN batch.price_dict :
              (\A i \in 1..Len(batch.symbols) :
                  batch.symbols[i] = s =>
                      \/ tasks[batch.slots[i]].result = None
                      \/ tasks[batch.slots[i]].exc)
              => batch.price_dict[s] = None

\* A joined batch of two symbols, one without a price and one with.
C6_Witness ==
    /\ batch.state = "joined"
    /\ Len(batch.symbols) = 2
    /\ batch.symbols[1] # batch.symbols[2]
    /\ batch.price_dict[batch.symbols[1]] = None
    /\ batch.price_dict[batch.symbols[2]] # None

\* The Quotes of s, in the order of their insertion.
RECURSIVE QuotesOf(_, _)
QuotesOf(h, s) ==
    IF h = <<>> THEN <<>>
    ELSE IF h[1].symbol = s THEN <<h[1]>> \o QuotesOf(Tail(h), s)
    ELSE QuotesOf(Tail(h), s)

\* What a resolution of s alone returns when its Quote Source call comes to
\* `out` and its database session to `db`: from the outcome and from the
\* Quotes of s only.
AloneResult(out, db, quotes) ==
    IF out.st = "price" THEN Some(out.v)
    ELSE IF out.st = "raise" /\ db = "ok" /\ quotes # <<>>
         THEN Some(quotes[Len(quotes)].price)
         ELSE None

(* C7: in get_multiple_prices every symbol's value is what its own
   resolution returns from the cache entry, the Quote Source answer and the
   Quotes of that symbol alone: a task that starts returns the fresh cached
   price of its symbol or waits for its fetch; a task whose fetch is
   answered gets the result of AloneResult and changes no other task; a
   finished task keeps its result; and the join maps each symbol to the
   result of the task of its last occurrence, whatever the other tasks
   returned. *)
C7_PerSymbolIsolation ==
    [][/\ \A t \in Slots :
            /\ Starts(t) =>
                  tasks'[t].result =
                      IF HasFresh(tasks'[t].sym)
                      THEN Some(price_cache[tasks'[t].sym][1]) ELSE None
            /\ Completes(t) =>
                  /\ tasks'[t].result =
                        AloneResult(tasks'[t].out, tasks'[t].db,
                                    QuotesOf(history, tasks[t].sym))
                  /\ ~tasks'[t].exc
                  /\ \A u \in Slots \ {t} : tasks'[u] = tasks[u]
            /\ (tasks[t].pc = "done" /\ tasks'[t].pc = "done") =>
                  tasks'[t] = tasks[t]
       /\ (batch.state = "running" /\ batch'.state = "joined") =>
            /\ tasks' = tasks
            /\ \A i \in 1..Len(batch.symbols) :
                  (\A j \in 1..Len(batch.symbols) :
                      batch.symbols[j] = batch.symbols[i] => j <= i)
                  => batch'.price_dict[batch.symbols[i]] =
                         tasks[batch.slots[i]].result
      ]_vars

\* A joined batch in which the Quote Source call of the first symbol raised
\* and came to nothing, and the second symbol has its live price.
C7_Witness ==
    /\ batch.state = "joined"
    /\ Len(batch.symbols) = 2
    /\ batch.symbols[1] # batch.symbols[2]
    /\ tasks[batch.slots[1]].out.st = "raise"
    /\ tasks[batch.slots[1]].result = None
    /\ tasks[batch.slots[2]].out.st = "price"
    /\ batch.price_dict[batch.symbols[2]] = Some(tasks[batch.slots[2]].out.v)

(* C8 as claimed: at most rate_limit (10) Quote Source calls are begun
   within any window of the throttler period (60 s). *)
C8_QuotaRespected == Len(callLog) <= rate_limit

(* C9: get_multiple_prices starts all its resolutions before any of them is
   waited on: no task of the batch is still unstarted while a sibling is at
   its Quote Source call or has finished, and whenever the event loop is
   free to run a callback, a task at its Quote Source call can be answered
   whatever state its siblings are in. *)
C9_AllStartedBeforeAnyIsAwaited ==
    /\ \A t, u \in Slots :
          (/\ tasks[t].inBatch
           /\ tasks[u].inBatch
           /\ tasks[t].pc \in {"fetching", "done"}) => tasks[u].pc # "created"
    /\ \A t \in Slots :
          (tasks[t].pc = "fetching" /\ ~Returning) =>
              ENABLED FetchComplete(t, NetworkError, TRUE)

\* A later task of the batch has finished its fetch while an earlier one is
\* still at its Quote Source call.
C9_Witness ==
    \E t, u \in Slots :
        /\ t < u
        /\ tasks[t].inBatch
        /\ tasks[u].inBatch
        /\ tasks[t].pc = "fetching"
        /\ tasks[u].pc = "done"
        /\ tasks[u].out.st # "-"

(* C10 as claimed: whenever a live Quote Source call for S yields a price
   p, the resolution returns p, the cache holds (p, now) under S, one Quote
   (S, p) is appended to the history, a lookup of S then hits, and the
   latest Quote of S has price p. *)
C10_StoresAndAppendsAlways ==
    [][\A t \in Slots :
          (Completes(t) /\ tasks'[t].out.st = "price") =>
              LET s == tasks[t].sym
                  p == tasks'[t].out.v
              IN  /\ tasks'[t].result = Some(p)
                  /\ s \in DOMAIN price_cache'
                  /\ price_cache'[s] = <<p, now>>
                  /\ now - price_cache'[s][2] < cache_duration
                  /\ history' = Append(history, Row(s, p, now))
                  /\ get_last_known_price(history', s, TRUE) = Some(p)
      ]_vars

(* C10 as amended: whenever a live Quote Source call for S yields a price
   p, the resolution returns p and the cache holds (p, now) under S, so
   that a lookup of S then hits with p; when the append to the history
   succeeds, exactly one Quote (S, p) is appended and the latest Quote of S
   has price p; when the append fails, the history is left as it was. *)
C10_StoresAndAppends ==
    [][\A t \in Slots :
          (Completes(t) /\ tasks'[t].out.st = "price") =>
              LET s == tasks[t].sym
                  p == tasks'[t].out.v
              IN  /\ tasks'[t].result = Some(p)
                  /\ ~tasks'[t].exc
                  /\ s \in DOMAIN price_cache'
                  /\ price_cache'[s] = <<p, now>>
                  /\ now - price_cache'[s][2] < cache_duration
                  /\ tasks'[t].db = "ok" =>
                        /\ history' = Append(history, Row(s, p, now))
                        /\ get_last_known_price(history', s, TRUE) = Some(p)
                  /\ tasks'[t].db = "fail" => history' = history
      ]_vars

\* A live price has just replaced an older cache entry of another price and
\* has been appended after an older Quote of the symbol.
C10_Witness ==
    \E t \in Slots :
        /\ tasks[t].pc = "done"
        /\ tasks[t].out.st = "price"
        /\ tasks[t].db = "ok"
        /\ now > 0
        /\ price_cache[tasks[t].sym] = <<tasks[t].out.v, now>>
        /\ Len(history) = 2
        /\ history[1].symbol = tasks[t].sym
        /\ history[1].price # tasks[t].out.v
        /\ history[2] = Row(tasks[t].sym, tasks[t].out.v, now)

----------------------------------------------------------------------------
(* C11 as claimed: clear_cache empties the price cache, and the first call
   that follows it for a symbol whose entry the clear removed always begins
   a Quote Source call and returns nothing at that point. *)
C11_ClearThenResolveAlwaysFetches ==
    [][/\ cleared' # {} => price_cache' = EmptyCache
       /\ \A t \in Slots :
             (Starts(t) /\ tasks'[t].sym \in sinceClear.removed) =>
                 /\ tasks'[t].pc = "fetching"
                 /\ tasks'[t].result = None
                 /\ CallsBegun = 1
      ]_vars

(* C11: clear_cache empties the price cache, and the first call that follows
   it for a symbol whose entry the clear removed begins a Quote Source call
   at the current time and returns nothing at that point, whatever the age
   of the removed entry was, unless a call for that symbol that was in
   flight when the cache was cleared has stored its price since and that
   price is younger than the cache duration: then the call returns the
   price stored since the clear and begins no Quote Source call. *)
C11_ClearThenResolveFetchesUnlessStored ==
    [][/\ cleared' # {} => price_cache' = EmptyCache
       /\ \A t \in Slots :
             (Starts(t) /\ tasks'[t].sym \in sinceClear.removed) =>
                 IF /\ tasks'[t].sym \in DOMAIN sinceClear.stored
                    /\ now - sinceClear.stored[tasks'[t].sym][2] < cache_duration
                 THEN /\ tasks'[t].pc = "done"
                      /\ tasks'[t].result = Some(sinceClear.stored[tasks'[t].sym][1])
                      /\ CallsBegun = 0
                 ELSE /\ tasks'[t].pc = "fetching"
                      /\ tasks'[t].result = None
                      /\ CallsBegun = 1
                      /\ callLog'[Len(callLog')] = now
      ]_vars

\* The cache was cleared, and the only call in progress is the first one
\* made since for AAPL, begun now, one tick after a Quote for AAPL was
\* fetched and stored: its entry would still be fresh, but the cache is
\* empty.
C11_Witness ==
    /\ sinceClear.happened
    /\ sinceClear.started
    /\ sinceClear.removed = {}
    /\ price_cache = EmptyCache
    /\ callLog = <<now>>
    /\ \E t \in Slots :
          /\ tasks[t].pc = "fetching"
          /\ tasks[t].sym = "AAPL"
          /\ \A u \in Slots \ {t} : tasks[u].pc = "idle"
    /\ \E i \in RowsOf(history, "AAPL") :
          /\ history[i].timestamp >= 0
          /\ now - history[i].timestamp = TickSeconds

----------------------------------------------------------------------------
(* C12: a failing database session never aborts a resolution.  When the
   Quote Source gave a price and the append to the history failed, the
   resolution ends without raising, returns the fetched price, the cache
   holds that price with the current time, and the history is as it was.
   When the Quote Source call failed and the fallback read failed too, the
   resolution ends without raising and returns nothing. *)
C12_PersistenceFailureIsSwallowed ==
    [][\A t \in Slots :
          (Completes(t) /\ tasks'[t].db = "fail") =>
              /\ ~tasks'[t].exc
              /\ tasks'[t].out.st = "price" =>
                    /\ tasks'[t].result = Some(tasks'[t].out.v)
                    /\ tasks[t].sym \in DOMAIN price_cache'
                    /\ price_cache'[tasks[t].sym] = <<tasks'[t].out.v, now>>
                    /\ history' = history
              /\ tasks'[t].out.st = "raise" =>
                    /\ tasks'[t].result = None
                    /\ price_cache' = price_cache
                    /\ history' = history
      ]_vars

\* Both cases side by side in one batch: a price fetched and cached whose
\* append failed, and a failed call for a symbol with a recorded Quote
\* whose fallback read failed.
C12_Witness ==
    \E t \in Slots, u \in Slots :
        /\ tasks[t].pc = "done"
        /\ tasks[t].out.st = "price"
        /\ tasks[t].db = "fail"
        /\ tasks[t].result = Some(tasks[t].out.v)
        /\ tasks[t].sym \in DOMAIN price_cache
        /\ price_cache[tasks[t].sym][1] = tasks[t].out.v
        /\ tasks[u].pc = "done"
        /\ tasks[u].out.st = "raise"
        /\ tasks[u].db = "fail"
        /\ tasks[u].result = None
        /\ RowsOf(history, tasks[u].sym) # {}

----------------------------------------------------------------------------
(* C13: normalisation takes the first of currentPrice, regularMarketPrice,
   price, lastPrice, in that order, that is present and not None, and the
   result is that field's value alone (a price if it is a number, an error
   if it is not): later fields and the historical closes are not looked at.
   Only when none of the four is present and not None is the most recent
   historical close the price; with no close there is no price. *)
Yields(info, f) == f \in DOMAIN info /\ info[f].t # "none"

Taken(value) ==
    IF value.t = "num" THEN [st |-> "price", v |-> value.v]
    ELSE [st |-> "raise", v |-> 0]

C13_FirstPresentFieldWins ==
    (normalized # NoOutcome /\ ~rawQuote.tickerRaises) =>
        LET info == rawQuote.info
        IN  IF Yields(info, "currentPrice")
                THEN normalized = Taken(info["currentPrice"])
            ELSE IF Yields(info, "regularMarketPrice")
                THEN normalized = Taken(info["regularMarketPrice"])
            ELSE IF Yields(info, "price")
                THEN normalized = Taken(info["price"])
            ELSE IF Yields(info, "lastPrice")
                THEN normalized = Taken(info["lastPrice"])
            ELSE IF rawQuote.histRaises
                THEN normalized.st = "raise"
            ELSE IF rawQuote.hist = <<>>
                THEN normalized.st = "none"
            ELSE normalized = Taken(rawQuote.hist[Len(rawQuote.hist)])

\* currentPrice is None, regularMarketPrice is absent, price and lastPrice
\* are different numbers and there are closes: the price is that of the
\* field price.
C13_Witness ==
    /\ ~rawQuote.tickerRaises
    /\ DOMAIN rawQuote.info = {"currentPrice", "price", "lastPrice"}
    /\ rawQuote.info["currentPrice"] = NoneValue
    /\ rawQuote.info["price"] = Num(2)
    /\ rawQuote.info["lastPrice"] = Num(1)
    /\ rawQuote.hist = <<Num(3), Num(4)>>
    /\ normalized = [st |-> "price", v |-> 2]

----------------------------------------------------------------------------
(* C14: the cache is a mapping with one (price, time) pair per symbol, and
   every store, whatever other resolutions are in flight and whatever they
   stored before, makes the entry of its own symbol its own price with the
   time of the store and leaves the entry of every other symbol as it was:
   after any interleaving the entry of a symbol is that of the store for it
   that ran last. *)
C14_LastStoreWins ==
    [][/\ DOMAIN price_cache' \subseteq Symbols
       /\ \A s \in DOMAIN price_cache' : Len(price_cache'[s]) = 2
       /\ \A t \in Slots :
             (Completes(t) /\ tasks'[t].out.st = "price") =>
                 /\ DOMAIN price_cache' = DOMAIN price_cache \cup {tasks[t].sym}
                 /\ price_cache'[tasks[t].sym] = <<tasks'[t].out.v, now>>
                 /\ \A s \in DOMAIN price_cache \ {tasks[t].sym} :
                       price_cache'[s] = price_cache[s]
      ]_vars

\* Two resolutions of one batch for the same symbol fetched different
\* prices, one tick apart: the entry is the later one's.
C14_Witness ==
    /\ batch.state = "running"
    /\ \E t \in Slots, u \in Slots :
          /\ t # u
          /\ tasks[t].inBatch /\ tasks[u].inBatch
          /\ tasks[t].pc = "done" /\ tasks[u].pc = "done"
          /\ tasks[t].sym = tasks[u].sym
          /\ tasks[t].out.st = "price" /\ tasks[u].out.st = "price"
          /\ tasks[t].out.v # tasks[u].out.v
          /\ Len(history) >= 2
          /\ history[Len(history) - 1] = Row(tasks[t].sym, tasks[t].out.v, now - TickSeconds)
          /\ history[Len(history)] = Row(tasks[u].sym, tasks[u].out.v, now)
          /\ price_cache[tasks[u].sym] = <<tasks[u].out.v, now>>

----------------------------------------------------------------------------
(* C20: after any sequence of add_holding and update_holding calls every
   stored holding has quantity > 0 and purchase_price > 0, and a call whose
   quantity or purchase_price is given and is <= 0 is rejected (the schema
   raises) and leaves the table as it was. *)
C20_StoredHoldingsStayPositive ==
    [][/\ \A i \in 1..Len(holdings') :
             /\ holdings'[i].quantity > 0
             /\ holdings'[i].purchase_price > 0
       /\ ( \/ (call'.quantity # None /\ call'.quantity[1] <= 0)
            \/ (call'.purchase_price # None /\ call'.purchase_price[1] <= 0) ) =>
             /\ call'.raised
             /\ holdings' = holdings
      ]_vars

\* An update of a stored holding to quantity 0 was rejected: the holding
\* has the quantity it was added with.
C20_Witness ==
    /\ call.op = "update_holding"
    /\ call.quantity = Some(0)
    /\ call.raised
    /\ \E i \in RowOf(holdings, call.id) : holdings[i].quantity = 2

----------------------------------------------------------------------------
(* Valuations, as seen in the state a call leaves *)

\* A call that values holdings has returned.
Valued == call.op \in {"get_holdings_with_metrics", "get_portfolio_summary"}

\* The price map has a price for the symbol.
Priced(symbol) == symbol \in DOMAIN prices /\ prices[symbol] # None

\* The holding, as the call read it, that a valued holding was made from.
ReadRow(m) == call.rows[CHOOSE i \in 1..Len(call.rows) : call.rows[i].id = m.id]

\* The quotient q is n / d.
IsRatio(q, n, d) == q[2] > 0 /\ q[1] * d = n * q[2]

\* This step is a call that reads its rows and suspends; the rows it
\* keeps are the holdings that the portfolio has in the table.
ReadsThePortfolio ==
    (pending = NoPending /\ pending' # NoPending) =>
        /\ \A i \in 1..Len(pending'.rows) :
              \E j \in HeldBy(pending'.id) : holdings[j] = pending'.rows[i]
        /\ \A j \in HeldBy(pending'.id) :
              \E i \in 1..Len(pending'.rows) : holdings[j] = pending'.rows[i]
        /\ Len(pending'.rows) = Cardinality(HeldBy(pending'.id))

(* C15: every valued holding whose symbol has a price p in the price map
   carries the quantity q and purchase price b of the holding read and has
   current_price = p, total_cost = q * b, current_value = q * p,
   absolute_return = q * p - q * b and, when total_cost is above zero,
   percentage_return = absolute_return / total_cost * 100; when total_cost
   is zero, percentage_return is null. *)
C15_PricedHoldingMetrics ==
    Valued =>
        \A i \in 1..Len(metrics) :
            LET m == metrics[i]
                q == ReadRow(m).quantity
                b == ReadRow(m).purchase_price
                p == prices[m.symbol][1]
            IN  Priced(m.symbol) =>
                    /\ m.quantity = q /\ m.purchase_price = b
                    /\ m.current_price = Some(p)
                    /\ m.total_cost = Some(q * b)
                    /\ m.current_value = Some(q * p)
                    /\ m.absolute_return = Some(q * p - q * b)
                    /\ IF q * b = 0
                       THEN m.percentage_return = None
                       ELSE /\ m.percentage_return # None
                            /\ IsRatio(m.percentage_return[1], (q * p - q * b) * 100, q * b)

\* 10 units bought at 150 and priced at 160: 1500, 1600, 100 and 6.666... %
\* (20/3), next to a priced holding of cost zero without a percentage.
C15_Witness ==
    /\ Valued
    /\ \E i \in 1..Len(metrics) :
          /\ metrics[i].quantity = 10
          /\ metrics[i].purchase_price = 150
          /\ metrics[i].current_price = Some(160)
          /\ metrics[i].total_cost = Some(1500)
          /\ metrics[i].current_value = Some(1600)
          /\ metrics[i].absolute_return = Some(100)
          /\ metrics[i].percentage_return = Some(<<20, 3>>)
    /\ \E j \in 1..Len(metrics) :
          /\ metrics[j].total_cost = Some(0)
          /\ metrics[j].current_value = Some(160)
          /\ metrics[j].percentage_return = None

(* C16: the valued holdings are exactly the holdings of the portfolio that
   the call read, one each.  One whose symbol is mapped to none in the price
   map, or missing from it, has current_price, current_value,
   absolute_return and percentage_return null and total_cost = quantity *
   purchase_price; the others have their current value. *)
C16_UnpricedHoldingIsListed ==
    /\ [][ReadsThePortfolio]_vars
    /\ [](Valued =>
             /\ Len(metrics) = Len(call.rows)
             /\ \A i \in 1..Len(metrics) : metrics[i].id = call.rows[i].id
             /\ \A i \in 1..Len(metrics) :
                   LET m == metrics[i]
                   IN  IF Priced(m.symbol)
                       THEN m.current_value = Some(m.quantity * prices[m.symbol][1])
                       ELSE /\ m.current_price = None
                            /\ m.current_value = None
                            /\ m.absolute_return = None
                            /\ m.percentage_return = None
                            /\ m.total_cost =
                                  Some(call.rows[i].quantity * call.rows[i].purchase_price))

\* Two holdings: the price of AAPL is none, that of MSFT is known.
C16_Witness ==
    /\ Valued
    /\ Len(metrics) = 2
    /\ "AAPL" \in DOMAIN prices /\ prices["AAPL"] = None
    /\ \E i \in 1..Len(metrics) :
          /\ metrics[i].symbol = "AAPL"
          /\ metrics[i].current_value = None
          /\ metrics[i].total_cost = Some(1500)
    /\ \E j \in 1..Len(metrics) :
          /\ metrics[j].symbol = "MSFT"
          /\ metrics[j].current_value = Some(160)
          /\ metrics[j].percentage_return # None

----------------------------------------------------------------------------
(* Summaries, as seen in the state get_portfolio_summary leaves *)

\* A summary was returned; metrics is the list it was made from.
Summarised == call.op = "get_portfolio_summary" /\ summary # None

\* The positions of the valued holdings that have a percentage return.
WithReturn == {i \in 1..Len(metrics) : metrics[i].percentage_return # None}

ReturnAt(i) == metrics[i].percentage_return[1]

\* The first position, in the order of the list, of the highest / lowest
\* percentage return.
FirstMax ==
    CHOOSE i \in WithReturn :
        /\ \A j \in WithReturn : ~Greater(ReturnAt(j), ReturnAt(i))
        /\ \A j \in WithReturn : j < i => Less(ReturnAt(j), ReturnAt(i))

FirstMin ==
    CHOOSE i \in WithReturn :
        /\ \A j \in WithReturn : ~Less(ReturnAt(j), ReturnAt(i))
        /\ \A j \in WithReturn : j < i => Greater(ReturnAt(j), ReturnAt(i))

(* C17: when some valued holding has a percentage return, best_performer
   is the symbol of the first holding of the list whose percentage return
   is the highest among those that have one, and worst_performer the symbol
   of the first whose percentage return is the lowest: a later holding with
   the same return does not take the place. *)
C17_FirstExtremeWins ==
    (Summarised /\ WithReturn # {}) =>
        /\ summary[1].best_performer = Some(metrics[FirstMax].symbol)
        /\ summary[1].worst_performer = Some(metrics[FirstMin].symbol)

\* AAPL comes before MSFT with the same return: AAPL is the best and the
\* worst performer.
C17_Witness ==
    /\ Summarised
    /\ Len(metrics) = 2
    /\ WithReturn = {1, 2}
    /\ metrics[1].symbol = "AAPL"
    /\ metrics[2].symbol = "MSFT"
    /\ ReturnAt(1) = ReturnAt(2)
    /\ summary[1].best_performer = Some("AAPL")
    /\ summary[1].worst_performer = Some("AAPL")

(* C18: in every summary best_performer and worst_performer are both none
   exactly when no valued holding has a percentage return; otherwise both
   are set, each to the symbol of a holding of the portfolio asked for, as
   the call read it, whose symbol has a price in the price map. *)
C18_PerformersSetTogether ==
    /\ [][ReadsThePortfolio]_vars
    /\ [](Summarised =>
             /\ (summary[1].best_performer = None) <=> (WithReturn = {})
             /\ (summary[1].worst_performer = None) <=> (WithReturn = {})
             /\ \A performer \in {summary[1].best_performer, summary[1].worst_performer} :
                   performer # None =>
                       \E i \in 1..Len(call.rows) :
                           /\ call.rows[i].portfolio_id = call.id
                           /\ call.rows[i].symbol = performer[1]
                           /\ Priced(call.rows[i].symbol))

\* Portfolio 1 holds AAPL, without a price, and MSFT, priced: MSFT is best
\* and worst performer.
C18_Witness ==
    /\ Summarised
    /\ call.id = 1
    /\ Len(metrics) = 2
    /\ ~Priced("AAPL") /\ Priced("MSFT")
    /\ \E i \in 1..Len(metrics) : metrics[i].symbol = "AAPL"
    /\ summary[1].best_performer = Some("MSFT")
    /\ summary[1].worst_performer = Some("MSFT")

\* The sum of a sequence of amounts.
RECURSIVE Sum(_)
Sum(amounts) ==
    IF amounts = <<>> THEN 0 ELSE Head(amounts) + Sum(Tail(amounts))

CostOf(holding) == holding.quantity * holding.purchase_price

ValueOf(holding) ==
    IF Priced(holding.symbol) THEN holding.quantity * prices[holding.symbol][1] ELSE 0

\* A call of get_portfolio_summary returns none exactly when the portfolio
\* is not stored as the call begins.
NoneForAbsentOnly ==
    (call' # call /\ call'.op = "get_portfolio_summary") =>
        (call'.returned = "none" <=>
            (pending = NoPending /\ call'.id \notin ExistingPortfolios))

(* C19: get_portfolio_summary returns a summary for every portfolio stored
   as the call begins.  The summary has total_holdings = the number of
   holdings read and valued, total_cost = the sum of quantity *
   purchase_price over them, total_current_value = the sum of quantity *
   price over those with a price (the others count 0),
   total_absolute_return = total_current_value - total_cost, and
   total_percentage_return = total_absolute_return / total_cost * 100 when
   total_cost is above zero and 0 when it is zero.  The summary of a
   portfolio without holdings has all totals zero and no performers. *)
C19_SummaryTotals ==
    /\ [][NoneForAbsentOnly /\ ReadsThePortfolio]_vars
    /\ []((call.op = "get_portfolio_summary" /\ call.returned = "object") =>
            /\ summary # None
            /\ LET sm == summary[1]
                   cost == Sum([i \in 1..Len(call.rows) |-> CostOf(call.rows[i])])
                   value == Sum([i \in 1..Len(call.rows) |-> ValueOf(call.rows[i])])
               IN  /\ sm.portfolio_id = call.id
                   /\ sm.total_holdings = Len(call.rows)
                   /\ sm.total_holdings = Len(metrics)
                   /\ sm.total_cost = cost
                   /\ sm.total_current_value = value
                   /\ sm.total_absolute_return = value - cost
                   /\ IF cost = 0
                      THEN sm.total_percentage_return = <<0, 1>>
                      ELSE IsRatio(sm.total_percentage_return, (value - cost) * 100, cost)
                   /\ call.rows = <<>> =>
                         /\ sm.total_holdings = 0
                         /\ sm.total_cost = 0
                         /\ sm.total_current_value = 0
                         /\ sm.total_absolute_return = 0
                         /\ sm.best_performer = None
                         /\ sm.worst_performer = None)

\* 10 AAPL bought at 150 and priced at 160, 1 MSFT bought at 150 without a
\* price: cost 1650, value 1600, return -50, that is -100/33 %.
C19_Witness ==
    /\ Summarised
    /\ summary[1].total_holdings = 2
    /\ \E i \in 1..Len(metrics) : metrics[i].current_value = None
    /\ summary[1].total_cost = 1650
    /\ summary[1].total_current_value = 1600
    /\ summary[1].total_absolute_return = 0 - 50
    /\ summary[1].total_percentage_return = <<0 - 100, 33>>

----------------------------------------------------------------------------
(* C21: after any sequence of add_holding and update_holding calls, with
   symbols spelled in upper, lower or mixed case, the symbol of every
   stored holding is spelled in capital letters only; a holding just added
   or updated with a symbol carries the capital spelling of that symbol. *)
Capitals == {"AAPL", "MSFT"}

C21_StoredSymbolsAreUppercase ==
    /\ \A i \in 1..Len(holdings) : holdings[i].symbol \in Capitals
    /\ (call.op \in {"add_holding", "update_holding"} /\ ~call.raised
            /\ call.symbol \in {Some("aapl"), Some("Aapl"), Some("AAPL")}) =>
          \A i \in RowOf(holdings, call.id) : holdings[i].symbol = "AAPL"

\* A holding was added as "aapl" and is stored as "AAPL".
C21_Witness ==
    /\ call.op = "add_holding"
    /\ call.symbol = Some("aapl")
    /\ ~call.raised
    /\ \E i \in RowOf(holdings, call.id) : holdings[i].symbol = "AAPL"

----------------------------------------------------------------------------
(* C22 as claimed: every key of the price cache and every symbol appended
   to the price history is spelled in capitals, and a resolution that
   starts while the cache holds a fresh entry under any spelling of its
   symbol is answered from the cache without a Quote Source call. *)
C22_ResolverSymbolsAreUppercase ==
    [][/\ DOMAIN price_cache' \subseteq Capitals
       /\ \A i \in 1..Len(history') : history'[i].symbol \in Capitals
       /\ \A t \in Slots :
             (Starts(t) /\ \E s \in Symbols :
                              /\ upper(s) = upper(tasks'[t].sym)
                              /\ HasFresh(s)) =>
                 tasks'[t].pc = "done"
      ]_vars

----------------------------------------------------------------------------
(* Quotes appended in a step, and whether the rows there before are kept *)

Appended == Len(history') - Len(history)

RowsKept ==
    /\ Len(history') >= Len(history)
    /\ \A i \in 1..Len(history) : history'[i] = history[i]

\* The resolutions whose Quote Source call gives a price in this step.
FetchedNow == {t \in Slots : Completes(t) /\ tasks'[t].out.st = "price"}

(* C23 as claimed: in every step the rows of the history stay as they are,
   and the number of rows appended is the number of live fetches that give
   a price in the step: one for such a fetch, none for any other step. *)
C23_OneQuotePerFetchAlways ==
    [][RowsKept /\ Appended = Cardinality(FetchedNow)]_vars

(* C23: in every step the rows of the history stay as they are, with their
   order; a live fetch that gives a price appends exactly one row, the
   symbol, price and time of the fetch, when its database session works and
   none when it fails; a cache hit, a failed fetch, a fallback read and
   clear_cache append nothing. *)
C23_HistoryIsAppendOnly ==
    [][/\ RowsKept
       /\ Appended = Cardinality({t \in FetchedNow : tasks'[t].db = "ok"})
       /\ \A t \in FetchedNow :
             tasks'[t].db = "ok" =>
                 history'[Len(history')] = Row(tasks[t].sym, tasks'[t].out.v, now)
      ]_vars

\* The Quote of an earlier run is still the first row, the Quote of the
\* fetch that just ended is the second and last.
C23_Witness ==
    /\ Len(history) = 2
    /\ history[1] = Row("AAPL", 1, 0 - TickSeconds)
    /\ \E t \in Slots :
          /\ tasks[t].pc = "done"
          /\ tasks[t].out.st = "price"
          /\ tasks[t].db = "ok"
          /\ history[2] = Row(tasks[t].sym, tasks[t].out.v, now)

----------------------------------------------------------------------------
(* C24 as claimed: whatever number the Quote Source answers with, every
   price a resolution returns, every price in the cache and every price in
   the history is above zero. *)
C24_PricesArePositive ==
    /\ \A t \in Slots : tasks[t].result # None => tasks[t].result[1] > 0
    /\ \A s \in DOMAIN price_cache : price_cache[s][1] > 0
    /\ \A i \in 1..Len(history) : history[i].price > 0

----------------------------------------------------------------------------
(* PortfolioService: portfolios, and the removal of rows *)

PortfolioKeys == 1..(MaxRows + 1)

PortfolioNames == {"Growth", "Income"}

\* the table without the rows that satisfy gone
Without(table, gone) == SelectSeq(table, LAMBDA row : row \notin gone)

create_portfolio(name, description) ==
    /\ portfolios' = Append(portfolios, Portfolio(NextId(portfolios), name, description))
    /\ call' = [NoCall EXCEPT !.op = "create_portfolio", !.id = NextId(portfolios),
                              !.returned = "object"]
    /\ UNCHANGED <<holdings, prices, metrics, summary, pending, resolverVars, normaliserVars,
                   dashboardVars>>

get_portfolio(portfolio_id) ==
    /\ call' = [NoCall EXCEPT !.op = "get_portfolio", !.id = portfolio_id,
                              !.returned = IF RowOf(portfolios, portfolio_id) = {}
                                           THEN "none" ELSE "object"]
    /\ UNCHANGED <<holdings, portfolios, prices, metrics, summary, pending, resolverVars,
                   normaliserVars, dashboardVars>>

update_portfolio(portfolio_id, name, description) ==
    /\ portfolios' =
          [i \in 1..Len(portfolios) |->
              IF portfolios[i].id = portfolio_id
              THEN [portfolios[i] EXCEPT
                       !.name = IF name # None THEN name[1] ELSE @,
                       !.description = IF description # None THEN description[1] ELSE @]
              ELSE portfolios[i]]
    /\ call' = [NoCall EXCEPT !.op = "update_portfolio", !.id = portfolio_id,
                              !.returned = IF RowOf(portfolios, portfolio_id) = {}
                                           THEN "none" ELSE "object"]
    /\ UNCHANGED <<holdings, prices, metrics, summary, pending, resolverVars, normaliserVars,
                   dashboardVars>>

\* the portfolio alone is deleted
OnlyThePortfolio(h, portfolio_id) == {}

\* select(Holding).where(Holding.portfolio_id == portfolio_id)
HoldingsOfPortfolio(h, portfolio_id) ==
    {h[i] : i \in {j \in 1..Len(h) : h[j].portfolio_id = portfolio_id}}

delete_portfolio(portfolio_id) ==
    /\ IF RowOf(portfolios, portfolio_id) = {}
       THEN /\ UNCHANGED <<holdings, portfolios>>
            /\ call' = [NoCall EXCEPT !.op = "delete_portfolio", !.id = portfolio_id,
                                      !.returned = "false"]
       ELSE /\ holdings' = Without(holdings, HoldingsOfPortfolio(holdings, portfolio_id))
            /\ portfolios' =
                  Without(portfolios, {portfolios[i] : i \in RowOf(portfolios, portfolio_id)})
            /\ call' = [NoCall EXCEPT !.op = "delete_portfolio", !.id = portfolio_id,
                                      !.returned = "true"]
    /\ UNCHANGED <<prices, metrics, summary, pending, resolverVars, normaliserVars,
                   dashboardVars>>

get_holding(holding_id) ==
    /\ call' = [NoCall EXCEPT !.op = "get_holding", !.id = holding_id,
                              !.returned = IF RowOf(holdings, holding_id) = {}
                                           THEN "none" ELSE "object"]
    /\ UNCHANGED <<holdings, portfolios, prices, metrics, summary, pending, resolverVars,
                   normaliserVars, dashboardVars>>

\* a missing row taken for the last row of the table
FoundOrLast(h, id) ==
    IF \E i \in 1..Len(h) : h[i].id = id
    THEN {i \in 1..Len(h) : h[i].id = id}
    ELSE {Len(h)} \cap (1..Len(h))

\* session.get(Holding, holding_id) of delete_holding
Found(h, id) == RowOf(h, id)

delete_holding(holding_id) ==
    /\ IF Found(holdings, holding_id) = {}
       THEN /\ UNCHANGED holdings
            /\ call' = [NoCall EXCEPT !.op = "delete_holding", !.id = holding_id,
                                      !.returned = "false"]
       ELSE /\ holdings' =
                  Without(holdings, {holdings[i] : i \in Found(holdings, holding_id)})
            /\ call' = [NoCall EXCEPT !.op = "delete_holding", !.id = holding_id,
                                      !.returned = "true"]
    /\ UNCHANGED <<portfolios, prices, metrics, summary, pending, resolverVars, normaliserVars,
                   dashboardVars>>

\* One call at a time.  Holdings are added to stored portfolios; the
\* summaries of stored portfolios are explored in SpecMetrics.
PortfoliosNext ==
    \/ \E name \in PortfolioNames :
          /\ call = NoCall
          /\ NextId(portfolios) <= MaxRows
          /\ create_portfolio(name, "")
    \/ \E portfolio_id \in PortfolioKeys :
          /\ call = NoCall
          /\ get_portfolio(portfolio_id)
    \/ \E portfolio_id \in PortfolioKeys, name \in Optional({"Income"}),
          description \in Optional({"Long term"}) :
          /\ call = NoCall
          /\ update_portfolio(portfolio_id, name, description)
    \/ \E portfolio_id \in PortfolioKeys :
          /\ call = NoCall
          /\ delete_portfolio(portfolio_id)
    \/ \E portfolio_id \in ExistingPortfolios :
          /\ call = NoCall
          /\ NextId(holdings) <= MaxRows
          /\ add_holding(portfolio_id, "aapl", 1, 1)
    \/ \E holding_id \in HoldingIds :
          /\ call = NoCall
          /\ get_holding(holding_id)
    \/ \E holding_id \in HoldingIds, quantity \in Optional({2}) :
          /\ call = NoCall
          /\ update_holding(holding_id, None, quantity, None)
    \/ \E holding_id \in HoldingIds :
          /\ call = NoCall
          /\ delete_holding(holding_id)
    \/ \E portfolio_id \in PortfolioKeys \ ExistingPortfolios :
          /\ call = NoCall
          /\ get_portfolio_summary(portfolio_id)
    \/ ReturnToCaller

\* empty tables
PortfoliosInit ==
    /\ ResolverInit
    /\ history = <<>>
    /\ NormaliserIdle
    /\ holdings = <<>>
    /\ portfolios = <<>>
    /\ PortfolioIdle
    /\ DashboardNew

SpecPortfolios == PortfoliosInit /\ [][PortfoliosNext]_vars

----------------------------------------------------------------------------
(* Valuations of a holdings table as the database may hold it *)

\* Rows of portfolio 1, and one row of portfolio 2.  The table has no CHECK
\* constraint and the Holding table model does not validate, so a row
\* written otherwise than through the schemas can carry a price of 0.
StoredRows ==
    {[portfolio_id |-> 1, symbol |-> "AAPL", quantity |-> 10, purchase_price |-> 150],
     [portfolio_id |-> 1, symbol |-> "AAPL", quantity |-> 1, purchase_price |-> 0],
     [portfolio_id |-> 1, symbol |-> "MSFT", quantity |-> 1, purchase_price |-> 150],
     [portfolio_id |-> 1, symbol |-> "MSFT", quantity |-> 1, purchase_price |-> 1],
     [portfolio_id |-> 2, symbol |-> "AAPL", quantity |-> 1, purchase_price |-> 1]}

\* At most MaxTasks rows: each holding of a portfolio takes one task of the
\* resolver.
StoredTables ==
    UNION {{[i \in 1..n |->
                Holding(i, t[i].portfolio_id, t[i].symbol, t[i].quantity, t[i].purchase_price)] :
              t \in [1..n -> StoredRows]} : n \in 0..MaxTasks}

\* The Quote Source of the valuations: it gives 160 or fails.
MetricsResponses == {NetworkError, Answer([f \in {"currentPrice"} |-> Num(160)], <<>>)}

\* Calls on a stored table, one at a time, each holding resolved by the
\* price resolver; while a call waits for the resolver, the callbacks of the
\* dashboard that write the tables can run.
MetricsNext ==
    \/ \E portfolio_id \in {1, 2} :
          /\ resolutions + Cardinality(HeldBy(portfolio_id)) <= MaxResolutions
          /\ get_holdings_with_metrics(portfolio_id)
    \/ \E portfolio_id \in {1, 2, 3} :
          /\ resolutions + Cardinality(HeldBy(portfolio_id)) <= MaxResolutions
          /\ get_portfolio_summary(portfolio_id)
    \/ RunTasks
    \/ \E t \in Slots, resp \in MetricsResponses :
          /\ FetchComplete(t, resp, TRUE)
    \/ GatherJoin
    \/ holdings_with_metrics_resumed
    \/ portfolio_summary_resumed
    \/ /\ pending # NoPending
       /\ ~Returning
       /\ \/ delete_holding(1)
          \/ update_holding(1, None, Some(2), None)
          \/ delete_portfolio(1)

MetricsInit ==
    /\ ResolverInit
    /\ history = <<>>
    /\ NormaliserIdle
    /\ holdings \in StoredTables
    /\ portfolios = TwoPortfolios
    /\ PortfolioIdle
    /\ DashboardNew

SpecMetrics == MetricsInit /\ [][MetricsNext]_vars

----------------------------------------------------------------------------
(* Calls on ids that are not stored, and the removal of a portfolio *)

\* This step is a call, accepted by its schema, on an id that is not stored.
CallOnAbsentId ==
    /\ call = NoCall
    /\ ~call'.raised
    /\ \/ /\ call'.op \in {"get_portfolio", "update_portfolio", "get_portfolio_summary",
                           "delete_portfolio"}
          /\ RowOf(portfolios, call'.id) = {}
       \/ /\ call'.op \in {"get_holding", "update_holding", "delete_holding"}
          /\ RowOf(holdings, call'.id) = {}

\* C25: a call of get_portfolio, get_holding, update_portfolio,
\* update_holding or get_portfolio_summary on an id that is not stored returns
\* none, a call of delete_portfolio or delete_holding on such an id returns
\* False, and the stored portfolios and holdings are as they were.
C25_AbsentIdChangesNothing ==
    [][CallOnAbsentId =>
          /\ call'.returned = IF call'.op \in {"delete_portfolio", "delete_holding"}
                              THEN "false" ELSE "none"
          /\ portfolios' = portfolios
          /\ holdings' = holdings]_vars

\* delete_holding has returned False on an id that is not stored, with rows
\* in both tables
C25_Witness ==
    /\ call.op = "delete_holding"
    /\ call.returned = "false"
    /\ RowOf(holdings, call.id) = {}
    /\ holdings # <<>>
    /\ portfolios # <<>>

\* C26: delete_portfolio(p) on a stored portfolio returns True, removes p and
\* every holding whose portfolio_id is p, and leaves the other portfolios and
\* the holdings of other portfolios as they were; afterwards get_portfolio(p)
\* finds nothing and get_portfolio_holdings(p) is empty.
C26_DeletePortfolioRemovesItsHoldingsOnly ==
    [][(/\ call = NoCall
        /\ call'.op = "delete_portfolio"
        /\ RowOf(portfolios, call'.id) # {})
       => /\ call'.returned = "true"
          /\ portfolios' = SelectSeq(portfolios, LAMBDA row : row.id # call'.id)
          /\ holdings' = SelectSeq(holdings, LAMBDA row : row.portfolio_id # call'.id)
          /\ RowOf(portfolios', call'.id) = {}
          /\ get_portfolio_holdings(holdings', call'.id) = {<<>>}]_vars

\* delete_portfolio has removed a portfolio, and another portfolio and its
\* holding are still stored
C26_Witness ==
    /\ call.op = "delete_portfolio"
    /\ call.returned = "true"
    /\ call.id \notin ExistingPortfolios
    /\ \E i \in 1..Len(holdings) : holdings[i].portfolio_id \in ExistingPortfolios

----------------------------------------------------------------------------
(* What writes the cache *)

\* Task t ends in this step with a price from the Quote Source.
FetchesPrice(t) ==
    /\ tasks[t].pc = "fetching"
    /\ tasks'[t].pc = "done"
    /\ tasks'[t].out.st = "price"

\* The step writes the entry of task t's symbol, and that entry only.
WritesEntryOf(t) ==
    /\ DOMAIN price_cache' = DOMAIN price_cache \cup {tasks[t].sym}
    /\ price_cache'[tasks[t].sym] = <<tasks'[t].out.v, now>>
    /\ \A x \in DOMAIN price_cache \ {tasks[t].sym} : price_cache'[x] = price_cache[x]

\* C27: the cache changes only in a step that ends a fetch with a price from
\* the Quote Source, which writes the entry of the fetched symbol and no
\* other, or in clear_cache; a lookup (hit, miss or stale), a failed Quote
\* Source call and a fallback read leave it as it is, so a stale entry stays
\* until it is overwritten or cleared and a fallback price is never cached.
C27_CacheWrittenByFetchOrClear ==
    [][/\ price_cache' # price_cache =>
             \/ tasks' = tasks /\ now' = now /\ price_cache' = EmptyCache
             \/ \E t \in Slots : FetchesPrice(t) /\ WritesEntryOf(t)
       /\ \A t \in Slots : FetchesPrice(t) => WritesEntryOf(t)]_vars

\* A fallback read has answered for a symbol whose stale entry is still in
\* the cache.
C27_Witness ==
    \E t \in Slots :
        /\ tasks[t].pc = "done"
        /\ tasks[t].out.st = "raise"
        /\ tasks[t].result # None
        /\ tasks[t].sym \in DOMAIN price_cache
        /\ ~CacheFresh(price_cache, tasks[t].sym, now)

----------------------------------------------------------------------------
(* A symbol given more than once to get_multiple_prices *)

\* the tasks of the batch that this step starts on a symbol without a fresh
\* cache entry
StartedOnMiss ==
    {t \in Slots : /\ tasks[t].pc = "created"
                   /\ tasks'[t].pc # "created"
                   /\ ~CacheFresh(price_cache, tasks[t].sym, now)}

\* the positions of the list after which symbol s does not occur again
LastOccurrences(symbols) ==
    {i \in 1..Len(symbols) : \A j \in 1..Len(symbols) : symbols[j] = symbols[i] => j <= i}

\* C28: when the list given to get_multiple_prices holds a symbol more than
\* once and the cache has no fresh entry for it, every occurrence is resolved
\* on its own, each entering the throttler for its own Quote Source call; the
\* mapping returned has one key per symbol, and the value of a symbol is the
\* result of the resolution of its last occurrence in the list.
C28_DuplicatesResolvedSeparately ==
    /\ [][/\ \A t \in StartedOnMiss : tasks'[t].pc = "fetching"
          /\ (\E t \in Slots : tasks[t].pc = "created" /\ tasks'[t].pc # "created")
                => Len(callLog') = Len(callLog) + Cardinality(StartedOnMiss)]_vars
    /\ [](batch.state = "joined" =>
             /\ DOMAIN batch.price_dict = {batch.symbols[i] : i \in 1..Len(batch.symbols)}
             /\ \A i \in LastOccurrences(batch.symbols) :
                   batch.price_dict[batch.symbols[i]] = Joined(tasks[batch.slots[i]]))

\* A batch of one symbol given twice has been joined after two Quote Source
\* calls with different results; the mapping holds the second.
C28_Witness ==
    /\ batch.state = "joined"
    /\ Len(batch.symbols) = 2
    /\ batch.symbols[1] = batch.symbols[2]
    /\ tasks[batch.slots[1]].out # NoOutcome
    /\ tasks[batch.slots[2]].out # NoOutcome
    /\ tasks[batch.slots[1]].result # tasks[batch.slots[2]].result
    /\ batch.price_dict[batch.symbols[1]] = tasks[batch.slots[2]].result

----------------------------------------------------------------------------
(* clear_cache while fetches are in flight *)

\* C29: clear_cache neither cancels nor invalidates the resolutions in
\* flight.  After a clear_cache, the cache holds exactly the entries stored
\* since that call; the call leaves every coroutine where it was; and a fetch
\* that ends with a price stores it, whether or not the cache was cleared
\* while it was in flight, so the cache can hold an entry again with no
\* get_current_price called since the clear.
C29_ClearDoesNotCancelFetches ==
    /\ [](sinceClear.happened => price_cache = sinceClear.stored)
    /\ [][/\ cleared' # {} => tasks' = tasks
          /\ \A t \in Slots :
                FetchesPrice(t) =>
                    /\ tasks[t].sym \in DOMAIN price_cache'
                    /\ price_cache'[tasks[t].sym] = <<tasks'[t].out.v, now>>]_vars

\* The cache holds an entry after a clear_cache since which no
\* get_current_price was called: a fetch begun before the clear stored it.
C29_Witness ==
    /\ sinceClear.happened
    /\ ~sinceClear.started
    /\ price_cache # EmptyCache

----------------------------------------------------------------------------
(* The auto refresh of the dashboard, portfolio_dashboard.py lines 482-534.
   create() makes one PortfolioDashboard, which every load of the page "/"
   uses. *)

MaxTimers == 6

\* ui.timer(30, self.handle_refresh_dashboard): a new, active timer
Timer(made) == Append(made, TRUE)

\* refresh_timer.deactivate()
deactivate(made, timer) == [made EXCEPT ![timer] = FALSE]

\* A load of the page: portfolio_page calls setup_auto_refresh, line 527.
setup_auto_refresh ==
    /\ Len(timers) < MaxTimers
    /\ timers' = Timer(timers)
    /\ dashboard' = [dashboard EXCEPT !.refresh_timer = Some(Len(timers) + 1)]
    /\ UNCHANGED <<resolverVars, normaliserVars, portfolioVars>>

\* A click on the button of a loaded page, lines 485-493.
toggle_auto_refresh ==
    /\ timers # <<>>
    /\ IF dashboard.auto_refresh
       THEN /\ IF dashboard.refresh_timer # None
               THEN /\ timers' = deactivate(timers, dashboard.refresh_timer[1])
                    /\ dashboard' = [auto_refresh |-> FALSE, refresh_timer |-> None]
               ELSE /\ timers' = timers
                    /\ dashboard' = [dashboard EXCEPT !.auto_refresh = FALSE]
       ELSE /\ Len(timers) < MaxTimers
            /\ timers' = Timer(timers)
            /\ dashboard' = [auto_refresh |-> TRUE,
                             refresh_timer |-> Some(Len(timers) + 1)]
    /\ UNCHANGED <<resolverVars, normaliserVars, portfolioVars>>

DashboardNext ==
    \/ setup_auto_refresh
    \/ toggle_auto_refresh

DashboardInit ==
    /\ ResolverInit
    /\ history = <<>>
    /\ NormaliserIdle
    /\ holdings = <<>>
    /\ portfolios = <<>>
    /\ PortfolioIdle
    /\ DashboardNew

SpecDashboard == DashboardInit /\ [][DashboardNext]_vars

\* C30: once the page has been loaded, auto_refresh is true exactly when one
\* refresh timer is active, and no page load or toggle puts another value in
\* refresh_timer without deactivating the timer it held.
C30_FlagIffOneActiveTimer ==
    /\ [](timers # <<>> => (dashboard.auto_refresh <=>
                                Cardinality({i \in 1..Len(timers) : timers[i]}) = 1))
    /\ [][(/\ dashboard.refresh_timer # None
           /\ dashboard'.refresh_timer # dashboard.refresh_timer)
          => ~timers'[dashboard.refresh_timer[1]]]_vars

====
